---- MODULE Spec2Model ----
(***************************************************************************)
(* ValutaTrade Hub: the wallet ledger (core/models.py), the trading use    *)
(* cases and the rate resolver (core/usecases.py, core/utils.py) and the   *)
(* JSON document store behind them (infra/database.py).                    *)
(*                                                                         *)
(* Python floats are modelled as binary floating-point numbers with a      *)
(* Precision-bit significand and round-to-nearest-even, the arithmetic of  *)
(* binary64 at a smaller width: sums and differences of the small integral *)
(* amounts used here are exact (as they are in binary64 below 2^53), while *)
(* quotients are rounded.  Exponents are unbounded, so overflow to         *)
(* infinity and underflow are not modelled; infinity and not-a-number      *)
(* enter only as inputs and through inf - inf, inf * 0, inf / inf.         *)
(***************************************************************************)
EXTENDS Integers, Sequences, FiniteSets, TLC

VARIABLES
    wallet,          \* a Wallet object: [currency_code, balance], or NoWallet before construction
    deposited,       \* ghost: float sum of the amounts of the deposits that succeeded on wallet
    withdrawn,       \* ghost: float sum of the amounts of the withdrawals that succeeded on wallet
    portfolio,       \* a Portfolio object: [user_id, wallets], wallets: key -> Wallet; or NoPortfolio
    portfolios,      \* data/portfolios.json: a sequence of [user_id, wallets], wallets: key -> [balance]
    exchange_rates,  \* TradingUsecases.exchange_rates: pair key -> rate
    call,            \* ghost: the last call made: its arguments, the state it found, its outcome
    rates_file,      \* data/rates.json as it is on disk: [kind, keys, pairs, last_refresh]
    history_file,    \* data/exchange_rates.json: the sequence of history records
    now,             \* the clock: seconds of UTC time
    utc_offset,      \* local time minus UTC, in seconds (the time zone of the machine)
    appended,        \* ghost: every record passed to append_to_history so far, in call order
    disk,            \* what a reader finds in each persisted file while documents are written
    writer,          \* the write in progress: the file, the writing class and its position
    lock,            \* DatabaseManager._lock: the thread that holds it, or 0
    threads,         \* the threads (or processes) at work: what each runs and where it is
    users            \* data/users.json: a sequence of [user_id, username]

vars == <<wallet, deposited, withdrawn, portfolio, portfolios, exchange_rates, call,
          rates_file, history_file, now, utc_offset, appended, disk, writer,
          lock, threads, users>>

\* the variables of the wallet, portfolio and trading part
core_vars == <<wallet, deposited, withdrawn, portfolio, portfolios, exchange_rates>>

\* the variables of the rate store, the clock and the files being written
store_vars == <<rates_file, history_file, now, utc_offset, appended, disk, writer>>

\* the variables of the processes: the store lock, the threads, the users file
proc_vars == <<lock, threads, users>>

\* one thread of control runs the operations: the lock is free, users.json is []
NoThreads ==
    /\ lock = 0
    /\ threads = <<>>
    /\ users = <<>>

-----------------------------------------------------------------------------
(* Bounds of the model.                                                    *)

\* bits of the significand of the modelled float format
Precision == 6
\* largest finite total the deposits (and the withdrawals) of one wallet may add up to
MaxTotal == 6
\* largest finite amount passed to a call
MaxAmount == 6
\* largest number of pair keys in a modelled rate snapshot
MaxPairs == 3
\* the number of history records retained (MAX_HISTORY_SIZE of append_to_history,
\* 10000 in the source, scaled down)
MAX_HISTORY_SIZE == 3
\* largest number of append_to_history calls followed by the ghost appended
MaxAppends == 5
\* largest number of pairs the aggregation runs of one behaviour merge in total
MaxMerged == 2
\* the clock stops at MaxTime seconds
MaxTime == 600
\* largest number of documents written to one file
MaxWrites == 2
MaxCalls == 2
\* RATES_TTL_SECONDS of SettingsLoader
RATES_TTL_SECONDS == 300

-----------------------------------------------------------------------------
(* Python float values.  A value is a record [k, s, m, e]:                 *)
(*   k = "fin": the number s * m * 2^e, m = 0 (zero) or m odd              *)
(*   k = "inf": s * infinity        k = "nan": not-a-number                *)
(*   k = "str": an argument that is not a number (a non-numeric string)    *)

Fin(s, m, e) == [k |-> "fin", s |-> s, m |-> m, e |-> e]
Zero == Fin(1, 0, 0)
NaN == [k |-> "nan", s |-> 1, m |-> 0, e |-> 0]
Inf == [k |-> "inf", s |-> 1, m |-> 0, e |-> 0]
NegInf == [k |-> "inf", s |-> -1, m |-> 0, e |-> 0]
NotANumber == [k |-> "str", s |-> 1, m |-> 0, e |-> 0]

IsFin(x) == x.k = "fin"
IsNaN(x) == x.k = "nan"
IsInf(x) == x.k = "inf"
IsZero(x) == x.k = "fin" /\ x.m = 0
IsNumber(x) == x.k # "str"

Abs(n) == IF n < 0 THEN -n ELSE n
Sign(n) == IF n < 0 THEN -1 ELSE 1
Min(a, b) == IF a < b THEN a ELSE b

RECURSIVE BitLen(_)
\* number of bits of the natural number n
BitLen(n) == IF n = 0 THEN 0 ELSE 1 + BitLen(n \div 2)

RECURSIVE Canon(_, _, _)
\* the canonical record of s * m * 2^e: trailing zero bits of m go to the exponent
Canon(s, m, e) ==
    IF m = 0 THEN Zero
    ELSE IF m % 2 = 0 THEN Canon(s, m \div 2, e + 1)
    ELSE Fin(s, m, e)

\* n / d rounded to the nearest integer, ties to even
RoundHalfEven(n, d) ==
    LET q == n \div d
        r == n % d
    IN  IF 2 * r < d THEN q
        ELSE IF 2 * r > d THEN q + 1
        ELSE IF q % 2 = 0 THEN q ELSE q + 1

\* s * m * 2^e rounded to Precision significant bits
Round(s, m, e) ==
    LET len == BitLen(m)
    IN  IF len <= Precision THEN Canon(s, m, e)
        ELSE Canon(s, RoundHalfEven(m, 2 ^ (len - Precision)), e + (len - Precision))

\* int -> float (exact for |n| < 2^Precision)
FromInt(n) == Round(Sign(n), Abs(n), 0)

\* x + y
FAdd(x, y) ==
    IF IsNaN(x) \/ IsNaN(y) THEN NaN
    ELSE IF IsInf(x) /\ IsInf(y) THEN (IF x.s = y.s THEN x ELSE NaN)
    ELSE IF IsInf(x) THEN x
    ELSE IF IsInf(y) THEN y
    ELSE LET e == Min(x.e, y.e)
             n == x.s * x.m * 2 ^ (x.e - e) + y.s * y.m * 2 ^ (y.e - e)
         IN  Round(Sign(n), Abs(n), e)

\* -x
FNeg(x) == IF IsNaN(x) \/ IsZero(x) THEN x ELSE [x EXCEPT !.s = -x.s]

\* x - y
FSub(x, y) == FAdd(x, FNeg(y))

\* x * y
FMul(x, y) ==
    IF IsNaN(x) \/ IsNaN(y) THEN NaN
    ELSE IF IsInf(x) \/ IsInf(y)
         THEN (IF IsZero(x) \/ IsZero(y) THEN NaN
               ELSE [k |-> "inf", s |-> x.s * y.s, m |-> 0, e |-> 0])
    ELSE Round(x.s * y.s, x.m * y.m, x.e + y.e)

\* x / y for y # 0 (Python raises ZeroDivisionError for y = 0: see Divide)
FDiv(x, y) ==
    IF IsNaN(x) \/ IsNaN(y) THEN NaN
    ELSE IF IsInf(x) THEN (IF IsInf(y) THEN NaN
                           ELSE [k |-> "inf", s |-> x.s * y.s, m |-> 0, e |-> 0])
    ELSE IF IsInf(y) \/ IsZero(x) THEN Zero
    ELSE LET k0 == Precision + BitLen(y.m) - BitLen(x.m)
             k == IF x.m * 2 ^ k0 >= y.m * 2 ^ Precision THEN k0 - 1 ELSE k0
         IN  Canon(x.s * y.s, RoundHalfEven(x.m * 2 ^ k, y.m), x.e - y.e - k)

\* x < y (false when either is not-a-number)
FLt(x, y) ==
    IF IsNaN(x) \/ IsNaN(y) THEN FALSE
    ELSE IF IsInf(x) THEN x.s = -1 /\ ~(IsInf(y) /\ y.s = -1)
    ELSE IF IsInf(y) THEN y.s = 1
    ELSE LET e == Min(x.e, y.e)
         IN  x.s * x.m * 2 ^ (x.e - e) < y.s * y.m * 2 ^ (y.e - e)

\* x == y (false when either is not-a-number)
FEq(x, y) == ~IsNaN(x) /\ ~IsNaN(y) /\ x = y

\* x <= y
FLe(x, y) == FLt(x, y) \/ FEq(x, y)

-----------------------------------------------------------------------------
(* Currency registry (core/currencies.py) and the string conversions       *)
(* applied to currency codes.                                              *)

\* the codes registered at import time
CURRENCY_REGISTRY == {"USD", "EUR", "GBP", "RUB", "BTC", "ETH", "SOL"}

\* the currency codes passed to calls: registered ones, one in lower case, one
\* that is not registered, and the empty string
CodeInputs == {"BTC", "btc", "EUR", "USD", "XYZ", ""}

\* str.upper() on the modelled codes
Upper(code) == IF code = "btc" THEN "BTC" ELSE code

\* get_currency(code) raises CurrencyNotFoundError unless code.upper() is registered
get_currency_fails(code) == Upper(code) \notin CURRENCY_REGISTRY

-----------------------------------------------------------------------------
(* Wallet (core/models.py).                                                *)

NoWallet == [none |-> TRUE]
NoExc == [none |-> TRUE]

\* Wallet._validate_currency: the exception raised, or "none"
validate_currency(currency_code) ==
    IF currency_code = "" THEN "ValueError"
    ELSE IF get_currency_fails(currency_code) THEN "ValueError"
    ELSE "none"

\* Wallet._validate_amount: the exception raised, or "none"
validate_amount(amount) ==
    IF ~IsNumber(amount) THEN "TypeError"
    ELSE IF FLe(amount, Zero) THEN "ValueError"
    ELSE "none"

\* Wallet.deposit on wallet object w: [err, wallet, exc]
deposit(w, amount) ==
    IF validate_amount(amount) # "none"
    THEN [err |-> validate_amount(amount), wallet |-> w, exc |-> NoExc]
    ELSE [err |-> "none", wallet |-> [w EXCEPT !.balance = FAdd(@, amount)], exc |-> NoExc]

\* Wallet.withdraw on wallet object w: [err, wallet, exc]
withdraw(w, amount) ==
    IF validate_amount(amount) # "none"
    THEN [err |-> validate_amount(amount), wallet |-> w, exc |-> NoExc]
    ELSE IF FLt(w.balance, amount)
    THEN [err |-> "InsufficientFundsError", wallet |-> w,
          exc |-> [currency_code |-> w.currency_code, available |-> w.balance,
                   required |-> amount]]
    ELSE [err |-> "none", wallet |-> [w EXCEPT !.balance = FSub(@, amount)], exc |-> NoExc]

\* Wallet.__init__(currency_code, balance): [err, wallet]; no object when it raises
Wallet(currency_code, balance) ==
    IF validate_currency(currency_code) # "none"
    THEN [err |-> validate_currency(currency_code), wallet |-> NoWallet]
    ELSE LET r == deposit([currency_code |-> Upper(currency_code), balance |-> Zero], balance)
         IN  IF r.err # "none" THEN [err |-> r.err, wallet |-> NoWallet]
             ELSE [err |-> "none", wallet |-> r.wallet]

\* the balance property setter: [err, wallet]
balance_setter(w, value) ==
    IF ~IsNumber(value) THEN [err |-> "TypeError", wallet |-> w]
    ELSE IF FLt(value, Zero) THEN [err |-> "ValueError", wallet |-> w]
    ELSE [err |-> "none", wallet |-> [w EXCEPT !.balance = value]]

\* the amounts passed to calls: integral floats, infinities, not-a-number, a non-number
AmountInputs ==
    {FromInt(n) : n \in -1..MaxAmount} \cup {Inf, NegInf, NaN, NotANumber}

\* the ghost totals stay within MaxTotal while they are finite
WithinTotal(x) == IsFin(x) => FLe(x, FromInt(MaxTotal))

NoCall == [op |-> "none"]

\* w = Wallet(currency_code, balance)
NewWallet(currency_code, balance) ==
    /\ wallet = NoWallet
    /\ LET r == Wallet(currency_code, balance)
       IN  /\ wallet' = r.wallet
           /\ deposited' = IF r.err = "none" THEN FAdd(deposited, balance) ELSE deposited
           /\ WithinTotal(deposited')
           /\ call' = [op |-> "Wallet", currency_code |-> currency_code, amount |-> balance,
                       before |-> Zero, err |-> r.err, exc |-> NoExc]
    /\ UNCHANGED <<withdrawn, portfolio, portfolios, exchange_rates>>
    /\ UNCHANGED <<store_vars, proc_vars>>

\* w.deposit(amount)
Deposit(amount) ==
    /\ wallet # NoWallet
    /\ LET r == deposit(wallet, amount)
       IN  /\ wallet' = r.wallet
           /\ deposited' = IF r.err = "none" THEN FAdd(deposited, amount) ELSE deposited
           /\ WithinTotal(deposited')
           /\ call' = [op |-> "deposit", currency_code |-> wallet.currency_code,
                       amount |-> amount, before |-> wallet.balance, err |-> r.err,
                       exc |-> r.exc]
    /\ UNCHANGED <<withdrawn, portfolio, portfolios, exchange_rates>>
    /\ UNCHANGED <<store_vars, proc_vars>>

\* w.withdraw(amount)
Withdraw(amount) ==
    /\ wallet # NoWallet
    /\ LET r == withdraw(wallet, amount)
       IN  /\ wallet' = r.wallet
           /\ withdrawn' = IF r.err = "none" THEN FAdd(withdrawn, amount) ELSE withdrawn
           /\ WithinTotal(withdrawn')
           /\ call' = [op |-> "withdraw", currency_code |-> wallet.currency_code,
                       amount |-> amount, before |-> wallet.balance, err |-> r.err,
                       exc |-> r.exc]
    /\ UNCHANGED <<deposited, portfolio, portfolios, exchange_rates>>
    /\ UNCHANGED <<store_vars, proc_vars>>

-----------------------------------------------------------------------------
(* Portfolio (core/models.py), the portfolio document (infra/database.py)  *)
(* and its loading and saving (core/utils.py).                             *)

NoPortfolio == [none |-> TRUE]
NoEntry == [none |-> TRUE]
\* Python's None where a float is expected
None == [k |-> "none", s |-> 1, m |-> 0, e |-> 0]

EmptyMap == [key \in {} |-> Zero]
Put(f, key, v) == [x \in DOMAIN f \cup {key} |-> IF x = key THEN v ELSE f[x]]

\* Portfolio.__init__(user_id)
Portfolio(user_id) == [user_id |-> user_id, wallets |-> EmptyMap]

\* Portfolio.add_currency: [err, portfolio, wallet]
add_currency(p, currency_code) ==
    IF Upper(currency_code) \in DOMAIN p.wallets
    THEN [err |-> "none", portfolio |-> p, wallet |-> p.wallets[Upper(currency_code)]]
    ELSE LET r == Wallet(Upper(currency_code), Zero)
         IN  IF r.err # "none"
             THEN [err |-> r.err, portfolio |-> p, wallet |-> NoWallet]
             ELSE [err |-> "none",
                   portfolio |-> [p EXCEPT !.wallets = Put(@, Upper(currency_code), r.wallet)],
                   wallet |-> r.wallet]

\* Portfolio.get_wallet: [err, wallet]
get_wallet(p, currency_code) ==
    IF Upper(currency_code) \notin DOMAIN p.wallets
    THEN [err |-> "WalletNotFoundError", wallet |-> NoWallet]
    ELSE [err |-> "none", wallet |-> p.wallets[Upper(currency_code)]]

\* the index of the first entry of document doc with this user_id, or 0
EntryIndex(doc, user_id) ==
    IF \E i \in 1..Len(doc) : doc[i].user_id = user_id
    THEN CHOOSE i \in 1..Len(doc) :
            /\ doc[i].user_id = user_id
            /\ \A j \in 1..(i - 1) : doc[j].user_id # user_id
    ELSE 0

\* DatabaseManager.get_portfolio: the entry, or NoEntry for None
get_portfolio(doc, user_id) ==
    IF EntryIndex(doc, user_id) = 0 THEN NoEntry ELSE doc[EntryIndex(doc, user_id)]

\* an update that adds an entry whether the user has one or not
UpdateAppending(doc, user_id, wallets) ==
    Append(doc, [user_id |-> user_id, wallets |-> wallets])

\* DatabaseManager.update_portfolio: the document written
update_portfolio(doc, user_id, wallets) ==
    IF EntryIndex(doc, user_id) # 0
    THEN [doc EXCEPT ![EntryIndex(doc, user_id)].wallets = wallets]
    ELSE Append(doc, [user_id |-> user_id, wallets |-> wallets])

\* one persisted wallet loaded: Wallet(currency_code), then wallet.balance = balance
LoadWallet(currency_code, wallet_data) ==
    LET r == Wallet(currency_code, Zero)
    IN  IF r.err # "none" THEN r ELSE balance_setter(r.wallet, wallet_data.balance)

\* load_user_portfolio: [err, portfolio].  The wallets are loaded in the order of
\* the document and the first failure is raised; the model keeps no order among
\* them, which decides only which exception is raised when several wallets fail.
load_user_portfolio(doc, user_id) ==
    LET Build(loaded) ==
            IF \E c \in DOMAIN loaded : loaded[c].err # "none"
            THEN [err |-> loaded[CHOOSE c \in DOMAIN loaded : loaded[c].err # "none"].err,
                  portfolio |-> NoPortfolio]
            ELSE [err |-> "none",
                  portfolio |-> [user_id |-> user_id,
                                 wallets |-> [c \in DOMAIN loaded |-> loaded[c].wallet]]]
        Load(portfolio_data) ==
            IF portfolio_data = NoEntry
            THEN [err |-> "none", portfolio |-> Portfolio(user_id)]
            ELSE Build([c \in DOMAIN portfolio_data.wallets |->
                           LoadWallet(c, portfolio_data.wallets[c])])
    IN  Load(get_portfolio(doc, user_id))

\* save_user_portfolio: the document written
save_user_portfolio(doc, user_id, p) ==
    update_portfolio(doc, user_id,
                     [c \in DOMAIN p.wallets |-> [balance |-> p.wallets[c].balance]])

-----------------------------------------------------------------------------
(* The rate resolver and the trading use cases (core/usecases.py).         *)

Return(v) == [err |-> "none", val |-> v]
Raise(e) == [err |-> e, val |-> None]

\* a division with its operands exchanged: y / x
DivideReversed(x, y) ==
    IF IsZero(x) THEN Raise("ZeroDivisionError") ELSE Return(FDiv(y, x))

\* Python's x / y: ZeroDivisionError for y = 0
Divide(x, y) == IF IsZero(y) THEN Raise("ZeroDivisionError") ELSE Return(FDiv(x, y))

\* the pair key f"{from}_{to}"
PairKey(from_currency, to_currency) == from_currency \o "_" \o to_currency

\* a resolver that inverts the reverse pair before it looks at the direct pair
InverseFirst(rates, from_currency, to_currency) ==
    IF PairKey(to_currency, from_currency) \in DOMAIN rates
    THEN IF IsZero(rates[PairKey(to_currency, from_currency)])
         THEN Raise("ZeroDivisionError")
         ELSE Return(FDiv(FromInt(1), rates[PairKey(to_currency, from_currency)]))
    ELSE IF PairKey(from_currency, to_currency) \in DOMAIN rates
    THEN Return(rates[PairKey(from_currency, to_currency)])
    ELSE Raise("ValueError")

\* TradingUsecases._get_exchange_rate over the snapshot rates: [err, val]
_get_exchange_rate(rates, from_currency, to_currency) ==
    LET direct_pair == PairKey(from_currency, to_currency)
        reverse_pair == PairKey(to_currency, from_currency)
        base_currency == "USD"
        from_to_base == PairKey(from_currency, base_currency)
        to_to_base == PairKey(to_currency, base_currency)
    IN  IF direct_pair \in DOMAIN rates THEN Return(rates[direct_pair])
        ELSE IF reverse_pair \in DOMAIN rates THEN Divide(FromInt(1), rates[reverse_pair])
        ELSE IF from_currency = base_currency /\ to_to_base \in DOMAIN rates
             THEN Divide(FromInt(1), rates[to_to_base])
        ELSE IF from_currency # base_currency /\ to_currency = base_currency
                /\ from_to_base \in DOMAIN rates
             THEN Return(rates[from_to_base])
        ELSE IF from_to_base \in DOMAIN rates /\ to_to_base \in DOMAIN rates
             THEN Divide(rates[from_to_base], rates[to_to_base])
        ELSE Raise("ValueError")

\* validate_currency_code (core/utils.py): [err, val]; the modelled codes carry no
\* surrounding white space, so strip() leaves them as they are
validate_currency_code(currency_code) ==
    IF Upper(currency_code) = "" THEN [err |-> "ValueError", val |-> ""]
    ELSE IF get_currency_fails(Upper(currency_code))
    THEN [err |-> "CurrencyNotFoundError", val |-> ""]
    ELSE [err |-> "none", val |-> Upper(currency_code)]

\* validate_positive_float (core/utils.py): [err, val]
validate_positive_float(value) ==
    IF ~IsNumber(value) THEN Raise("ValueError")
    ELSE IF FLe(value, Zero) THEN Raise("ValueError")
    ELSE Return(value)

\* what a use case call leaves: the exception raised (or "none") with its fields, the
\* portfolio document, and the rate and USD value of the result
Outcome(err, exc, doc, rate, usd_value) ==
    [err |-> err, exc |-> exc, portfolios |-> doc, rate |-> rate, usd_value |-> usd_value]

\* the pricing that ends buy_currency and sell_currency, the portfolio being saved as doc
PriceTrade(rates, doc, currency_code, amount) ==
    LET r == _get_exchange_rate(rates, currency_code, "USD")
    IN  IF r.err = "ValueError" THEN Outcome("none", NoExc, doc, None, None)
        ELSE IF r.err # "none" THEN Outcome(r.err, NoExc, doc, None, None)
        ELSE Outcome("none", NoExc, doc, r.val, FMul(amount, r.val))

\* buy_currency from the result loaded of load_user_portfolio on: the portfolio
\* document is doc when the portfolio is saved
buy_loaded(doc, rates, user_id, code, amt, loaded) ==
    LET Fail(err, exc) == Outcome(err, exc, doc, None, None)
        Deposited(p, dep) ==
            IF dep.err # "none" THEN Fail(dep.err, dep.exc)
            ELSE PriceTrade(rates,
                            save_user_portfolio(doc, user_id,
                                [p EXCEPT !.wallets[code] = dep.wallet]),
                            code, amt)
        Found(p, found) ==
            IF found.err # "none" THEN Fail(found.err, NoExc)
            ELSE Deposited(p, deposit(found.wallet, amt))
        Added(added) ==
            IF added.err # "none" THEN Fail(added.err, NoExc)
            ELSE Found(added.portfolio, get_wallet(added.portfolio, code))
    IN  IF loaded.err # "none" THEN Fail(loaded.err, NoExc)
        ELSE Added(IF code \notin DOMAIN loaded.portfolio.wallets
                   THEN add_currency(loaded.portfolio, code)
                   ELSE [err |-> "none", portfolio |-> loaded.portfolio,
                         wallet |-> NoWallet])

\* TradingUsecases.buy_currency on the portfolio document doc
buy_currency(doc, rates, user_id, currency_code, amount) ==
    LET Fail(err, exc) == Outcome(err, exc, doc, None, None)
        Validated(code, amt) ==
            IF code.err # "none" THEN Fail(code.err, NoExc)
            ELSE IF amt.err # "none" THEN Fail(amt.err, NoExc)
            ELSE buy_loaded(doc, rates, user_id, code.val, amt.val,
                            load_user_portfolio(doc, user_id))
    IN  Validated(validate_currency_code(currency_code), validate_positive_float(amount))

\* a sell that saves the portfolio it loaded before it looks for the wallet
SellSavingFirst(doc, rates, user_id, currency_code, amount) ==
    LET Saved(loaded) ==
            IF loaded.err # "none" THEN Outcome(loaded.err, NoExc, doc, None, None)
            ELSE Outcome("WalletNotFoundError", NoExc,
                         save_user_portfolio(doc, user_id, loaded.portfolio), None, None)
    IN  Saved(load_user_portfolio(doc, user_id))

\* sell_currency from the result loaded of load_user_portfolio on: the portfolio
\* document is doc when the portfolio is saved
sell_loaded(doc, rates, user_id, code, amt, loaded) ==
    LET Fail(err, exc) == Outcome(err, exc, doc, None, None)
        Withdrawn(p, wd) ==
            IF wd.err # "none" THEN Fail(wd.err, wd.exc)
            ELSE PriceTrade(rates,
                            save_user_portfolio(doc, user_id,
                                [p EXCEPT !.wallets[code] = wd.wallet]),
                            code, amt)
        Found(p, found) ==
            IF found.err # "none" THEN Fail(found.err, NoExc)
            ELSE Withdrawn(p, withdraw(found.wallet, amt))
    IN  IF loaded.err # "none" THEN Fail(loaded.err, NoExc)
        ELSE IF code \notin DOMAIN loaded.portfolio.wallets
        THEN Fail("WalletNotFoundError", NoExc)
        ELSE Found(loaded.portfolio, get_wallet(loaded.portfolio, code))

\* TradingUsecases.sell_currency on the portfolio document doc
sell_currency(doc, rates, user_id, currency_code, amount) ==
    LET Fail(err, exc) == Outcome(err, exc, doc, None, None)
        Validated(code, amt) ==
            IF code.err # "none" THEN Fail(code.err, NoExc)
            ELSE IF amt.err # "none" THEN Fail(amt.err, NoExc)
            ELSE sell_loaded(doc, rates, user_id, code.val, amt.val,
                             load_user_portfolio(doc, user_id))
    IN  Validated(validate_currency_code(currency_code), validate_positive_float(amount))

NoRates == [none |-> TRUE]

UserIds == {1, 2}

\* the amounts passed to the use cases
TradeAmounts == {FromInt(n) : n \in {0, 1, MaxAmount}} \cup {NaN, NotANumber}

\* the currency codes passed to the use cases
TradeCodes == {"BTC", "btc", "EUR", "XYZ"}

\* portfolio = load_user_portfolio(user_id); nothing is assigned when it raises
LoadUserPortfolio(user_id) ==
    /\ LET r == load_user_portfolio(portfolios, user_id)
       IN  /\ portfolio' = IF r.err = "none" THEN r.portfolio ELSE portfolio
           /\ call' = [op |-> "load_user_portfolio", user_id |-> user_id,
                       before |-> portfolio, err |-> r.err]
    /\ UNCHANGED <<wallet, deposited, withdrawn, portfolios, exchange_rates>>
    /\ UNCHANGED <<store_vars, proc_vars>>

\* portfolio.add_currency(currency_code)
AddCurrency(currency_code) ==
    /\ portfolio # NoPortfolio
    /\ LET r == add_currency(portfolio, currency_code)
       IN  /\ portfolio' = r.portfolio
           /\ call' = [op |-> "add_currency", currency_code |-> currency_code,
                       before |-> portfolio, err |-> r.err, wallet |-> r.wallet]
    /\ UNCHANGED <<wallet, deposited, withdrawn, portfolios, exchange_rates>>
    /\ UNCHANGED <<store_vars, proc_vars>>

\* portfolio.get_wallet(currency_code)
GetWallet(currency_code) ==
    /\ portfolio # NoPortfolio
    /\ LET r == get_wallet(portfolio, currency_code)
       IN  call' = [op |-> "get_wallet", currency_code |-> currency_code,
                    before |-> portfolio, err |-> r.err, wallet |-> r.wallet]
    /\ UNCHANGED <<wallet, deposited, withdrawn, portfolio, portfolios, exchange_rates>>
    /\ UNCHANGED <<store_vars, proc_vars>>

\* TradingUsecases.buy_currency(user_id, currency_code, amount)
BuyCurrency(user_id, currency_code, amount) ==
    /\ LET r == buy_currency(portfolios, exchange_rates, user_id, currency_code, amount)
       IN  /\ portfolios' = r.portfolios
           /\ call' = [op |-> "buy_currency", user_id |-> user_id,
                       currency_code |-> currency_code, amount |-> amount,
                       before |-> portfolios, err |-> r.err, exc |-> r.exc,
                       rate |-> r.rate, usd_value |-> r.usd_value]
    /\ UNCHANGED <<wallet, deposited, withdrawn, portfolio, exchange_rates>>
    /\ UNCHANGED <<store_vars, proc_vars>>

\* TradingUsecases.sell_currency(user_id, currency_code, amount)
SellCurrency(user_id, currency_code, amount) ==
    /\ LET r == sell_currency(portfolios, exchange_rates, user_id, currency_code, amount)
       IN  /\ portfolios' = r.portfolios
           /\ call' = [op |-> "sell_currency", user_id |-> user_id,
                       currency_code |-> currency_code, amount |-> amount,
                       before |-> portfolios, err |-> r.err, exc |-> r.exc,
                       rate |-> r.rate, usd_value |-> r.usd_value]
    /\ UNCHANGED <<wallet, deposited, withdrawn, portfolio, exchange_rates>>
    /\ UNCHANGED <<store_vars, proc_vars>>

\* self._get_exchange_rate(from_currency, to_currency)
GetExchangeRate(from_currency, to_currency) ==
    /\ LET r == _get_exchange_rate(exchange_rates, from_currency, to_currency)
       IN  call' = [op |-> "_get_exchange_rate", from_currency |-> from_currency,
                    to_currency |-> to_currency, err |-> r.err, val |-> r.val]
    /\ UNCHANGED <<wallet, deposited, withdrawn, portfolio, portfolios, exchange_rates>>
    /\ UNCHANGED <<store_vars, proc_vars>>

-----------------------------------------------------------------------------
(* The rate store (parser_service/storage.py): data/rates.json and          *)
(* data/exchange_rates.json.  A file is a record [kind, keys, pairs,        *)
(* last_refresh]: kind "missing" (no file), "corrupt" (text that is not     *)
(* JSON), "binary" (bytes that are not UTF-8), "list" (a JSON document that *)
(* is an array), "dict" (a JSON object with the keys in keys).  A value     *)
(* read from a file has the same shape with kind "dict" or "list".          *)

\* timestamps as they are stored: the ISO string of second t, a string that is no
\* ISO timestamp, a JSON value that is not a string, and no value
Time(t) == [k |-> "time", t |-> t]
Malformed == [k |-> "malformed", t |-> 0]
NonString == [k |-> "nonstring", t |-> 0]
NoTime == [k |-> "none", t |-> 0]

MissingFile == [kind |-> "missing", keys |-> {}, pairs |-> EmptyMap, last_refresh |-> NoTime]
CorruptFile == [kind |-> "corrupt", keys |-> {}, pairs |-> EmptyMap, last_refresh |-> NoTime]
BinaryFile == [kind |-> "binary", keys |-> {}, pairs |-> EmptyMap, last_refresh |-> NoTime]
ListDocument == [kind |-> "list", keys |-> {}, pairs |-> EmptyMap, last_refresh |-> NoTime]
\* the Python value {}
EmptyDict == [kind |-> "dict", keys |-> {}, pairs |-> EmptyMap, last_refresh |-> NoTime]

\* a snapshot document {"pairs": pairs, "last_refresh": last_refresh}
Snapshot(pairs, last_refresh) ==
    [kind |-> "dict", keys |-> {"pairs", "last_refresh"}, pairs |-> pairs,
     last_refresh |-> last_refresh]

\* RatesStorage._read_json: {} for a file that is missing or is not JSON, else the
\* decoded document, whatever its type
RatesStorage_read_json(file) ==
    IF file.kind \in {"missing", "corrupt"} THEN EmptyDict ELSE file

\* the exception _read_json lets through, or "none": open(..., encoding='utf-8')
\* raises UnicodeDecodeError, which is none of the exceptions caught
read_json_error(file) ==
    IF file.kind = "binary" THEN "UnicodeDecodeError" ELSE "none"

\* RatesStorage.load_current_rates
load_current_rates(file) == RatesStorage_read_json(file)

\* a save that stamps last_refresh whether the snapshot has one or not
StampAlways(rates_data, t) ==
    [rates_data EXCEPT !.keys = @ \cup {"last_refresh"}, !.last_refresh = Time(t)]

\* RatesStorage.save_current_rates(rates_data) at time t: the file written
save_current_rates(rates_data, t) ==
    IF "last_refresh" \notin rates_data.keys
    THEN [rates_data EXCEPT !.keys = @ \cup {"last_refresh"}, !.last_refresh = Time(t)]
    ELSE rates_data

\* the first n elements of the sequence seq
FirstN(seq, n) ==
    IF Len(seq) <= n THEN seq ELSE SubSeq(seq, 1, n)

\* the last n elements of the sequence seq (seq[-n:])
LastN(seq, n) ==
    IF Len(seq) <= n THEN seq ELSE SubSeq(seq, Len(seq) - n + 1, Len(seq))

\* data/exchange_rates.json: no file, text that is not JSON, a JSON object, or a
\* JSON array of records
MissingHistory == [kind |-> "missing", records |-> <<>>]
CorruptHistory == [kind |-> "corrupt", records |-> <<>>]
ObjectHistory == [kind |-> "dict", records |-> <<>>]
HistoryDocument(records) == [kind |-> "list", records |-> records]

\* RatesStorage.load_history: the records of the history file, [] when what is read
\* is no list
load_history(history) ==
    IF history.kind = "list" THEN history.records ELSE <<>>

\* RatesStorage.append_to_history(record): the history file written
append_to_history(history, record) ==
    HistoryDocument(LastN(Append(load_history(history), record), MAX_HISTORY_SIZE))

-----------------------------------------------------------------------------
(* The providers (parser_service/api_clients.py).  What a provider answers  *)
(* is an input: [ok, data, time], ok FALSE for a request that fails (no     *)
(* API key, a network error, an error status, a body that is not the        *)
(* expected JSON), data the sequence of <<currency code, value>> of its     *)
(* body in the order of the configured currencies, time the                 *)
(* time_last_update_utc of the body.                                        *)

CoinGeckoClient == "CoinGeckoClient"
ExchangeRateApiClient == "ExchangeRateApiClient"

\* one entry of the pairs mapping
RateData(rate, updated_at, source) ==
    [rate |-> rate, updated_at |-> updated_at, source |-> source]

\* what fetch_rates gives: the rates as a sequence of <<pair key, rate data>>, or
\* ApiRequestError
Fetched(rates) == [err |-> "none", rates |-> rates]
ApiRequestError == [err |-> "ApiRequestError", rates |-> <<>>]

\* CoinGeckoClient.fetch_rates, the response being parsed at UTC second t: the value
\* of each currency as received, stamped with t
CoinGeckoClient_fetch_rates(answer, t) ==
    IF ~answer.ok THEN ApiRequestError
    ELSE Fetched([i \in 1..Len(answer.data) |->
                    <<PairKey(answer.data[i][1], "USD"),
                      RateData(answer.data[i][2], t, "CoinGecko")>>])

\* ExchangeRateApiClient.fetch_rates: the reciprocal of each conversion rate, stamped
\* with the provider's time; a zero conversion rate raises ZeroDivisionError, which
\* the client wraps like every other exception
ExchangeRateApiClient_fetch_rates(answer) ==
    IF ~answer.ok THEN ApiRequestError
    ELSE IF \E i \in 1..Len(answer.data) : Divide(FromInt(1), answer.data[i][2]).err # "none"
    THEN ApiRequestError
    ELSE Fetched([i \in 1..Len(answer.data) |->
                    <<PairKey(answer.data[i][1], "USD"),
                      RateData(Divide(FromInt(1), answer.data[i][2]).val, answer.time,
                               "ExchangeRate-API")>>])

\* client.fetch_rates()
fetch_rates(client, answer, t) ==
    IF client = CoinGeckoClient THEN CoinGeckoClient_fetch_rates(answer, t)
    ELSE ExchangeRateApiClient_fetch_rates(answer)

-----------------------------------------------------------------------------
(* The aggregation run (parser_service/updater.py).                         *)

\* str.lower over the source names and the currency code that are modelled
Lower(source) ==
    CASE source = "CoinGecko" -> "coingecko"
      [] source = "EXCHANGERATE" -> "exchangerate"
      [] source = "USD" -> "usd"
      [] OTHER -> source

IsCoinGecko(client) == client = CoinGeckoClient
IsExchangeRate(client) == client = ExchangeRateApiClient

\* the clients one run asks (source "" stands for None and for the empty string)
clients_to_use(clients, source) ==
    IF source = "" THEN clients
    ELSE IF Lower(source) = "coingecko" THEN SelectSeq(clients, IsCoinGecko)
    ELSE IF Lower(source) = "exchangerate" THEN SelectSeq(clients, IsExchangeRate)
    ELSE clients

\* the currencies of the modelled rate snapshots
RateCurrencies == {"USD", "BTC", "EUR"}

\* pair.split('_') of a pair key of two currency codes
split(pair) ==
    CHOOSE x \in RateCurrencies \X RateCurrencies : PairKey(x[1], x[2]) = pair

\* a history record that names the source where the client belongs
RecordNamingSource(pair, rate_data, client_name) ==
    [id |-> <<pair, rate_data.updated_at>>,
     from_currency |-> split(pair)[1], to_currency |-> split(pair)[2],
     rate |-> rate_data.rate, timestamp |-> rate_data.updated_at,
     source |-> rate_data.source, client |-> rate_data.source]

\* the history record built for one merged pair (client stands for meta.client)
history_record(pair, rate_data, client_name) ==
    [id |-> <<pair, rate_data.updated_at>>,
     from_currency |-> split(pair)[1], to_currency |-> split(pair)[2],
     rate |-> rate_data.rate, timestamp |-> rate_data.updated_at,
     source |-> rate_data.source, client |-> client_name]

\* the state of a run while the clients are asked: the pairs mapping, the summary
\* so far, the history file, the records appended, the clients asked, the UTC time
RunState(pairs, updated_pairs, errors, success, history, records, fetched, t) ==
    [pairs |-> pairs, updated_pairs |-> updated_pairs, errors |-> errors,
     success |-> success, history |-> history, records |-> records,
     fetched |-> fetched, t |-> t]

\* an inner loop that keeps the entry of a pair the cache already holds
RECURSIVE MergeNewPairs(_, _, _)
MergeNewPairs(rates, client_name, st) ==
    IF rates = <<>> THEN st
    ELSE MergeNewPairs(Tail(rates), client_name,
            RunState(IF Head(rates)[1] \in DOMAIN st.pairs THEN st.pairs
                     ELSE Put(st.pairs, Head(rates)[1], Head(rates)[2]),
                     Append(st.updated_pairs, Head(rates)[1]),
                     st.errors, st.success,
                     append_to_history(st.history,
                         history_record(Head(rates)[1], Head(rates)[2], client_name)),
                     Append(st.records,
                         history_record(Head(rates)[1], Head(rates)[2], client_name)),
                     st.fetched, st.t))

\* the inner loop: merge each pair a client returned and append its history record
RECURSIVE MergeRates(_, _, _)
MergeRates(rates, client_name, st) ==
    IF rates = <<>> THEN st
    ELSE MergeRates(Tail(rates), client_name,
            RunState(Put(st.pairs, Head(rates)[1], Head(rates)[2]),
                     Append(st.updated_pairs, Head(rates)[1]),
                     st.errors, st.success,
                     append_to_history(st.history,
                         history_record(Head(rates)[1], Head(rates)[2], client_name)),
                     Append(st.records,
                         history_record(Head(rates)[1], Head(rates)[2], client_name)),
                     st.fetched, st.t))

\* a turn of the loop that lets a failed request pass unrecorded
AskClientUnrecorded(client, r, d, st) ==
    IF r.err = "none"
    THEN MergeRates(r.rates, client,
            RunState(st.pairs, st.updated_pairs, st.errors, st.success, st.history,
                     st.records, Append(st.fetched, client), st.t + d))
    ELSE RunState(st.pairs, st.updated_pairs, st.errors, st.success,
                  st.history, st.records, Append(st.fetched, client), st.t + d)

\* one turn of the loop over the clients, the client's fetch_rates having given r
\* after d seconds
AskClient(client, r, d, st) ==
    IF r.err = "none"
    THEN MergeRates(r.rates, client,
            RunState(st.pairs, st.updated_pairs, st.errors, st.success, st.history,
                     st.records, Append(st.fetched, client), st.t + d))
    ELSE RunState(st.pairs, st.updated_pairs, Append(st.errors, client), FALSE,
                  st.history, st.records, Append(st.fetched, client), st.t + d)

\* a loop over the clients that gives up at the first failed request
RECURSIVE StopAtFailure(_, _, _, _)
StopAtFailure(clients, answers, d, st) ==
    IF clients = <<>> \/ ~st.success THEN st
    ELSE StopAtFailure(Tail(clients), answers, d,
            AskClient(Head(clients),
                      fetch_rates(Head(clients), answers[Head(clients)], st.t + d),
                      d, st))

\* the loop over the clients; answers[c] is what client c answers and each request
\* takes d seconds
RECURSIVE AskClients(_, _, _, _)
AskClients(clients, answers, d, st) ==
    IF clients = <<>> THEN st
    ELSE AskClients(Tail(clients), answers, d,
            AskClient(Head(clients),
                      fetch_rates(Head(clients), answers[Head(clients)], st.t + d),
                      d, st))

\* what a run leaves: the exception raised or "none", the summary returned, the
\* rates file, the history file, the records appended, the clients asked, the UTC
\* time at the end
RunResult(err, summary, file, history, records, fetched, t) ==
    [err |-> err, summary |-> summary, file |-> file, history |-> history,
     records |-> records, fetched |-> fetched, t |-> t]

NoSummary == [success |-> FALSE, updated_pairs |-> <<>>, errors |-> <<>>, timestamp |-> NoTime]

\* the end of a run: last_refresh is stamped with the time the loop ended at, and
\* the snapshot is saved
FinishRun(current_rates, t0, st) ==
    RunResult("none",
              [success |-> st.success, updated_pairs |-> st.updated_pairs,
               errors |-> st.errors, timestamp |-> Time(t0)],
              save_current_rates(
                  [current_rates EXCEPT !.keys = @ \cup {"pairs", "last_refresh"},
                                        !.pairs = st.pairs,
                                        !.last_refresh = Time(st.t)],
                  st.t),
              st.history, st.records, st.fetched, st.t)

\* the run on the value current_rates loaded from file: a value that is no dict
\* raises TypeError at `current_rates["pairs"] = {}`, before any client is asked
RunLoaded(file, current_rates, history, clients, source, answers, d, t0) ==
    IF read_json_error(file) # "none"
    THEN RunResult(read_json_error(file), NoSummary, file, history, <<>>, <<>>, t0)
    ELSE IF current_rates.kind # "dict"
    THEN RunResult("TypeError", NoSummary, file, history, <<>>, <<>>, t0)
    ELSE FinishRun(current_rates, t0,
            AskClients(clients_to_use(clients, source), answers, d,
                RunState(IF "pairs" \in current_rates.keys THEN current_rates.pairs
                         ELSE EmptyMap,
                         <<>>, <<>>, TRUE, history, <<>>, <<>>, t0)))

\* RatesUpdater.run_update(source) of an updater with the clients clients, started
\* at UTC second t0 on the files file and history
run_update(file, history, clients, source, answers, d, t0) ==
    RunLoaded(file, load_current_rates(file), history, clients, source, answers, d, t0)

-----------------------------------------------------------------------------
(* Freshness (infra/database.py).                                           *)

\* DatabaseManager._read_json: [] for a file that is missing or is not JSON
DatabaseManager_read_json(file) ==
    IF file.kind \in {"missing", "corrupt"} THEN ListDocument ELSE file

\* DatabaseManager.get_rates
get_rates(file) == DatabaseManager_read_json(file)

\* datetime.fromisoformat(rates["last_refresh"]) and the comparison with the local
\* time local_now: ValueError is caught, TypeError is not
FreshSince(last_refresh, local_now) ==
    CASE last_refresh.k = "time" ->
            [err |-> "none", val |-> local_now - last_refresh.t < RATES_TTL_SECONDS]
      [] last_refresh.k = "malformed" -> [err |-> "none", val |-> FALSE]
      [] OTHER -> [err |-> "TypeError", val |-> FALSE]

\* DatabaseManager.are_rates_fresh on the value rates, datetime.now() being local_now
FreshRates(rates, local_now) ==
    IF rates.kind = "list" \/ rates.keys = {} \/ "last_refresh" \notin rates.keys
    THEN [err |-> "none", val |-> FALSE]
    ELSE FreshSince(rates.last_refresh, local_now)

are_rates_fresh(file, local_now) ==
    IF read_json_error(file) # "none" THEN [err |-> read_json_error(file), val |-> FALSE]
    ELSE FreshRates(get_rates(file), local_now)

\* datetime.utcnow() is now; datetime.now() is the local time
LocalNow == now + utc_offset

-----------------------------------------------------------------------------
(* Operations on the rate store.                                            *)

RunUpdateDone(clients, source, answers, d, r) ==
    /\ Len(appended) + Len(r.records) <= MaxMerged
    /\ rates_file' = r.file
    /\ history_file' = r.history
    /\ appended' = appended \o r.records
    /\ now' = r.t
    /\ call' = [op |-> "run_update", clients |-> clients, source |-> source,
                answers |-> answers, d |-> d, err |-> r.err, summary |-> r.summary, fetched |-> r.fetched,
                records |-> r.records]

\* updater.run_update(source), every request taking d seconds
RunUpdate(clients, source, answers, d) ==
    /\ now + Len(clients_to_use(clients, source)) * d <= MaxTime
    /\ RunUpdateDone(clients, source, answers, d,
                     run_update(rates_file, history_file, clients, source, answers, d, now))
    /\ UNCHANGED <<proc_vars, core_vars, utc_offset, disk, writer>>

\* the rate cache was last written by run_update (a ghost carried by call)
WrittenByRun ==
    \/ call.op = "run_update" /\ call.err = "none"
    \/ call.op = "are_rates_fresh" /\ call.written_by_run

\* db.are_rates_fresh()
AreRatesFresh ==
    /\ call' = [op |-> "are_rates_fresh", file |-> rates_file, at |-> now,
                written_by_run |-> WrittenByRun,
                err |-> are_rates_fresh(rates_file, LocalNow).err,
                val |-> are_rates_fresh(rates_file, LocalNow).val]
    /\ UNCHANGED <<proc_vars, core_vars, rates_file, history_file, now, utc_offset,
                   appended,
                   disk, writer>>

\* storage.append_to_history(record)
AppendToHistory(record) ==
    /\ Len(appended) < MaxAppends
    /\ history_file' = append_to_history(history_file, record)
    /\ appended' = Append(appended, record)
    /\ call' = [op |-> "append_to_history", record |-> record]
    /\ UNCHANGED <<proc_vars, core_vars, rates_file, now, utc_offset, disk, writer>>

\* storage.load_current_rates()
LoadCurrentRates ==
    /\ call' = [op |-> "load_current_rates", file |-> rates_file,
                err |-> read_json_error(rates_file),
                val |-> load_current_rates(rates_file)]
    /\ UNCHANGED <<proc_vars, core_vars, rates_file, history_file, now, utc_offset,
                   appended,
                   disk, writer>>

\* step seconds pass
Tick(step) ==
    /\ now + step <= MaxTime
    /\ now' = now + step
    /\ UNCHANGED <<proc_vars, core_vars, call, rates_file, history_file, utc_offset,
                   appended,
                   disk, writer>>

\* nothing of the rate store is in use
StoreIdle ==
    /\ rates_file = MissingFile
    /\ history_file = HistoryDocument(<<>>)
    /\ now = 0
    /\ utc_offset = 0
    /\ appended = <<>>
    /\ disk = <<>>
    /\ writer = <<>>

-----------------------------------------------------------------------------
(* Initial documents.  data/portfolios.json and data/rates.json are read   *)
(* as they are found (infra/database.py creates them only when they are    *)
(* missing), so the initial states range over documents of the persisted   *)
(* format.                                                                 *)

\* the balances a persisted wallet may hold
PersistedBalances == {Zero, FromInt(2)}

\* the wallets of a persisted portfolio entry
WalletDocs ==
    UNION {[S -> [balance : PersistedBalances]] : S \in SUBSET {"BTC", "EUR"}}

\* portfolio documents: no entry, an entry for user 1, entries for users 1 and 2
PortfolioDocs ==
    {<<>>}
    \cup {<<[user_id |-> 1, wallets |-> w]>> : w \in WalletDocs}
    \cup {<<[user_id |-> 1, wallets |-> w1], [user_id |-> 2, wallets |-> w2]>> :
             w1, w2 \in {w \in WalletDocs : DOMAIN w \subseteq {"BTC"}}}

\* the pair keys of a snapshot: the ordered pairs of two different currencies
PairKeys ==
    {PairKey(x[1], x[2]) : x \in {y \in RateCurrencies \X RateCurrencies : y[1] # y[2]}}

\* the rates a snapshot may hold: zero (a provider value is merged as received) and
\* small integral rates
RateInputs == {Zero} \cup {FromInt(n) : n \in 2..5}

\* the rate snapshots: at most MaxPairs pair keys, each with a rate
Snapshots ==
    UNION {[S -> RateInputs] : S \in {T \in SUBSET PairKeys : Cardinality(T) <= MaxPairs}}

\* the snapshots the trading use cases are run with: no rates, and rates to USD
TradeSnapshots ==
    {[key \in {} |-> Zero],
     [key \in {"BTC_USD", "EUR_USD"} |-> IF key = "BTC_USD" THEN FromInt(4) ELSE FromInt(2)]}

\* one wallet, from its construction on
InitWallet ==
    /\ wallet = NoWallet
    /\ deposited = Zero
    /\ withdrawn = Zero
    /\ portfolio = NoPortfolio
    /\ portfolios = <<>>
    /\ exchange_rates = NoRates
    /\ call = NoCall
    /\ StoreIdle
    /\ NoThreads

NextWallet ==
    \/ \E c \in CodeInputs, a \in AmountInputs : NewWallet(c, a)
    \/ \E a \in AmountInputs : Deposit(a)
    \/ \E a \in AmountInputs : Withdraw(a)

SpecWallet == InitWallet /\ [][NextWallet]_vars

\* a Portfolio object, built empty or loaded from the portfolio document
InitPortfolio ==
    /\ wallet = NoWallet
    /\ deposited = Zero
    /\ withdrawn = Zero
    /\ portfolio = NoPortfolio
    /\ portfolios \in PortfolioDocs
    /\ exchange_rates = NoRates
    /\ call = NoCall
    /\ StoreIdle
    /\ NoThreads

NextPortfolio ==
    \/ \E u \in UserIds : LoadUserPortfolio(u)
    \/ \E c \in CodeInputs : AddCurrency(c)
    \/ \E c \in CodeInputs : GetWallet(c)

SpecPortfolio == InitPortfolio /\ [][NextPortfolio]_vars

\* the trading use cases of a session over the portfolio document
InitTrade ==
    /\ wallet = NoWallet
    /\ deposited = Zero
    /\ withdrawn = Zero
    /\ portfolio = NoPortfolio
    /\ portfolios \in PortfolioDocs
    /\ exchange_rates \in TradeSnapshots
    /\ call = NoCall
    /\ StoreIdle
    /\ NoThreads

NextTrade ==
    \/ \E u \in UserIds, c \in TradeCodes, a \in TradeAmounts : BuyCurrency(u, c, a)
    \/ \E u \in UserIds, c \in TradeCodes, a \in TradeAmounts : SellCurrency(u, c, a)

SpecTrade == InitTrade /\ [][NextTrade]_vars

\* the resolver over every modelled snapshot
InitRates ==
    /\ wallet = NoWallet
    /\ deposited = Zero
    /\ withdrawn = Zero
    /\ portfolio = NoPortfolio
    /\ portfolios = <<>>
    /\ exchange_rates \in Snapshots
    /\ call = NoCall
    /\ StoreIdle
    /\ NoThreads

NextRates ==
    \E f \in RateCurrencies, t \in RateCurrencies : GetExchangeRate(f, t)

SpecRates == InitRates /\ [][NextRates]_vars

\* the local time of the machine minus UTC, in seconds
UtcOffsets == {-10800, 0, 10800}

\* data/rates.json as DatabaseManager._init_data_files creates it at local time t
\* (two of its four default pairs)
DefaultRates(t) ==
    Snapshot(Put(Put(EmptyMap, "BTC_USD", RateData(FromInt(3), t, "default")),
                 "EUR_USD", RateData(FromInt(1), t, "default")),
             Time(t))

\* the rate caches the program leaves behind: none, one cut short while it was
\* created, the default one created at local time t
UpdateStores(t) == {MissingFile, CorruptFile, DefaultRates(t)}

\* the clients an updater is configured with
ClientLists ==
    {<<>>, <<CoinGeckoClient>>, <<ExchangeRateApiClient>>,
     <<CoinGeckoClient, ExchangeRateApiClient>>,
     <<ExchangeRateApiClient, CoinGeckoClient>>}

\* the source names asked for ("" for none)
SourceInputs == {"", "CoinGecko", "exchangerate", "foo"}

\* what the providers answer
Failure == [ok |-> FALSE, data |-> <<>>, time |-> 0]
Answer(data, time) == [ok |-> TRUE, data |-> data, time |-> time]
CoinGeckoAnswers == {Failure, Answer(<<<<"BTC", FromInt(2)>>>>, 0)}
ExchangeRateAnswers == {Failure, Answer(<<<<"EUR", FromInt(2)>>>>, 0)}
ZeroRateAnswer == Answer(<<<<"EUR", Zero>>>>, 0)
Answers(a, b) ==
    [c \in {CoinGeckoClient, ExchangeRateApiClient} |->
        IF c = CoinGeckoClient THEN a ELSE b]
AnswerInputs == {Answers(a, b) : a \in CoinGeckoAnswers, b \in ExchangeRateAnswers}

\* the seconds one request takes, and the seconds that pass between operations
Durations == {0, 300}
TickSteps == {300}

\* the updater on the caches the program leaves behind, on a machine whose local
\* time is UTC
InitUpdate ==
    /\ wallet = NoWallet
    /\ deposited = Zero
    /\ withdrawn = Zero
    /\ portfolio = NoPortfolio
    /\ portfolios = <<>>
    /\ exchange_rates = NoRates
    /\ call = NoCall
    /\ utc_offset = 0
    /\ now = 0
    /\ rates_file \in UpdateStores(utc_offset)
    /\ history_file = HistoryDocument(<<>>)
    /\ appended = <<>>
    /\ disk = <<>>
    /\ writer = <<>>
    /\ NoThreads

NextUpdate ==
    \E clients \in ClientLists, source \in SourceInputs,
       answers \in AnswerInputs, d \in Durations :
        RunUpdate(clients, source, answers, d)

SpecUpdate == InitUpdate /\ [][NextUpdate]_vars

-----------------------------------------------------------------------------
(* Claims about one wallet (SpecWallet).                                    *)

\* an amount the specification calls valid: a positive finite number
PositiveFinite(amount) == IsFin(amount) /\ FLt(Zero, amount)

\* C1: after every call on a wallet its balance equals the sum of the deposits that
\* succeeded minus the sum of the withdrawals that succeeded, and the balance is >= 0
C1_BalanceIsDepositsMinusWithdrawals ==
    wallet # NoWallet =>
        /\ FEq(wallet.balance, FSub(deposited, withdrawn))
        /\ FLe(Zero, wallet.balance)

\* C4: withdraw(amount) with amount > balance raises InsufficientFundsError carrying
\* the currency, the balance and the amount and leaves the balance unchanged; with
\* 0 < amount <= balance it succeeds, the new balance is balance - amount, and a
\* withdrawal of the whole balance leaves exactly 0
C4_WithdrawContract ==
    (call.op = "withdraw" /\ IsNumber(call.amount)) =>
        /\ FLt(call.before, call.amount) =>
              /\ call.err = "InsufficientFundsError"
              /\ call.exc = [currency_code |-> wallet.currency_code,
                             available |-> call.before, required |-> call.amount]
              /\ wallet.balance = call.before
        /\ (FLt(Zero, call.amount) /\ FLe(call.amount, call.before)) =>
              /\ call.err = "none"
              /\ wallet.balance = FSub(call.before, call.amount)
              /\ FEq(call.amount, call.before) => wallet.balance = Zero

\* C5: deposit and withdraw raise an invalid-amount error for every amount that is
\* not a positive finite number, a call that raises leaves the balance unchanged,
\* and a deposit of a positive finite amount adds exactly that amount
C5_InvalidAmountsRejected ==
    call.op \in {"deposit", "withdraw"} =>
        /\ ~PositiveFinite(call.amount) => call.err \in {"TypeError", "ValueError"}
        /\ call.err # "none" => wallet.balance = call.before
        /\ (call.op = "deposit" /\ PositiveFinite(call.amount)) =>
              /\ call.err = "none"
              /\ wallet.balance = FAdd(call.before, call.amount)

-----------------------------------------------------------------------------
(* Claims about a portfolio object (SpecPortfolio) and about the trading    *)
(* use cases over the portfolio document (SpecTrade).                       *)

\* C3: add_currency for a registered code returns the wallet already held under the
\* code, or else creates a wallet with balance exactly 0, stores it and returns it;
\* for an unregistered code it raises and the portfolio is unchanged
C3_AddCurrencyGetsOrCreates ==
    call.op = "add_currency" =>
        IF Upper(call.currency_code) \in CURRENCY_REGISTRY
        THEN IF Upper(call.currency_code) \in DOMAIN call.before.wallets
             THEN /\ call.err = "none"
                  /\ call.wallet = call.before.wallets[Upper(call.currency_code)]
                  /\ portfolio = call.before
             ELSE /\ call.err = "none"
                  /\ call.wallet # NoWallet
                  /\ call.wallet.balance = Zero
                  /\ portfolio.wallets =
                         Put(call.before.wallets, Upper(call.currency_code), call.wallet)
        ELSE /\ call.err # "none"
             /\ portfolio = call.before

\* the wallets persisted for user_id in the portfolio document doc
PersistedWallets(doc, user_id) ==
    IF get_portfolio(doc, user_id) = NoEntry THEN EmptyMap
    ELSE get_portfolio(doc, user_id).wallets

\* a call of a use case with a registered currency code and a positive finite amount
ValidTrade(op) ==
    /\ call.op = op
    /\ Upper(call.currency_code) \in CURRENCY_REGISTRY
    /\ PositiveFinite(call.amount)

\* C2: buy_currency by a user whose portfolio holds no wallet of the currency
\* succeeds, creates the wallet, and persists a balance equal to the amount bought
C2_BuyCreatesWalletLazily ==
    (/\ ValidTrade("buy_currency")
     /\ Upper(call.currency_code) \notin
            DOMAIN PersistedWallets(call.before, call.user_id)) =>
        /\ call.err = "none"
        /\ Upper(call.currency_code) \in DOMAIN PersistedWallets(portfolios, call.user_id)
        /\ PersistedWallets(portfolios, call.user_id)[Upper(call.currency_code)].balance
               = call.amount

\* C6: sell_currency of a currency the user never held raises WalletNotFoundError,
\* sell_currency from a wallet that exists with balance 0 raises
\* InsufficientFundsError, and both leave the persisted portfolio unchanged
C6_SellNeverHeldOrEmpty ==
    ValidTrade("sell_currency") =>
        IF Upper(call.currency_code) \notin
               DOMAIN PersistedWallets(call.before, call.user_id)
        THEN call.err = "WalletNotFoundError" /\ portfolios = call.before
        ELSE PersistedWallets(call.before, call.user_id)[Upper(call.currency_code)].balance
                 = Zero
             => call.err = "InsufficientFundsError" /\ portfolios = call.before

-----------------------------------------------------------------------------
(* Claims about the rate resolver (SpecRates).                              *)

\* the last call was _get_exchange_rate(from_currency, to_currency)
Resolved(from_currency, to_currency) ==
    /\ call.op = "_get_exchange_rate"
    /\ call.from_currency = from_currency
    /\ call.to_currency = to_currency

Cached(pair) == pair \in DOMAIN exchange_rates

\* 1.0
One == FromInt(1)

\* C7: _get_exchange_rate(X, X) returns 1.0 for every currency X, whatever is cached
C7_IdentityRate ==
    \A x \in RateCurrencies :
        Resolved(x, x) => call.err = "none" /\ call.val = One

\* C8 as stated: whenever A_B is cached with rate r, _get_exchange_rate(B, A)
\* returns 1/r, also when B_A is cached
C8_InverseOfCachedPair ==
    \A a, b \in RateCurrencies :
        (Resolved(b, a) /\ Cached(PairKey(a, b))) =>
            /\ call.err = "none"
            /\ call.val = FDiv(One, exchange_rates[PairKey(a, b)])

\* C8: whenever A_B is cached with rate r, _get_exchange_rate(B, A) returns the
\* cached B_A rate when B_A is cached; otherwise it returns 1/r for r # 0 and
\* raises ZeroDivisionError for r = 0
C8_InverseUnlessDirectCached ==
    \A a, b \in RateCurrencies :
        (Resolved(b, a) /\ Cached(PairKey(a, b))) =>
            IF Cached(PairKey(b, a))
            THEN call.err = "none" /\ call.val = exchange_rates[PairKey(b, a)]
            ELSE IF IsZero(exchange_rates[PairKey(a, b)])
            THEN call.err = "ZeroDivisionError"
            ELSE /\ call.err = "none"
                 /\ call.val = FDiv(One, exchange_rates[PairKey(a, b)])

\* C8 witness: B is resolved to A with A_B and B_A both cached, and the value
\* returned is not the inverse of the A_B rate
C8_BothDirectionsCached ==
    \E a, b \in RateCurrencies :
        /\ Resolved(b, a)
        /\ Cached(PairKey(a, b)) /\ Cached(PairKey(b, a))
        /\ ~IsZero(exchange_rates[PairKey(a, b)])
        /\ call.err = "none"
        /\ call.val # FDiv(One, exchange_rates[PairKey(a, b)])

\* C9: for from # to the resolver returns the value of the first rule with a cached
\* pair in the order direct, inverse, anchor rules, double triangulation, and raises
\* the rate-not-found error when no rule has a cached pair
C9_FallbackOrder ==
    \A f, t \in RateCurrencies :
        (Resolved(f, t) /\ f # t) =>
            IF Cached(PairKey(f, t))
            THEN call.err = "none" /\ call.val = exchange_rates[PairKey(f, t)]
            ELSE IF Cached(PairKey(t, f))
            THEN call.err = "none" /\ call.val = FDiv(One, exchange_rates[PairKey(t, f)])
            ELSE IF f = "USD" /\ Cached(PairKey(t, "USD"))
            THEN call.err = "none" /\ call.val = FDiv(One, exchange_rates[PairKey(t, "USD")])
            ELSE IF t = "USD" /\ Cached(PairKey(f, "USD"))
            THEN call.err = "none" /\ call.val = exchange_rates[PairKey(f, "USD")]
            ELSE IF Cached(PairKey(f, "USD")) /\ Cached(PairKey(t, "USD"))
            THEN /\ call.err = "none"
                 /\ call.val = FDiv(exchange_rates[PairKey(f, "USD")],
                                    exchange_rates[PairKey(t, "USD")])
            ELSE call.err = "ValueError"

\* A is resolved to B by double triangulation: A_USD and B_USD are cached and
\* neither A_B nor B_A is
Triangulated(a, b) ==
    /\ Resolved(a, b)
    /\ a # b /\ a # "USD" /\ b # "USD"
    /\ Cached(PairKey(a, "USD")) /\ Cached(PairKey(b, "USD"))
    /\ ~Cached(PairKey(a, b)) /\ ~Cached(PairKey(b, a))

\* 0.5
Half == Fin(1, 1, -1)

\* the distance from 1 allowed to the product of a quotient and its reciprocal
\* quotient: four units in the last place, 2^-(Precision - 2)
RoundingSlack == Fin(1, 1, 2 - Precision)

InitFresh ==
    /\ wallet = NoWallet
    /\ deposited = Zero
    /\ withdrawn = Zero
    /\ portfolio = NoPortfolio
    /\ portfolios = <<>>
    /\ exchange_rates = NoRates
    /\ call = NoCall
    /\ utc_offset \in UtcOffsets
    /\ now = 0
    /\ rates_file \in UpdateStores(utc_offset)
    /\ history_file = HistoryDocument(<<>>)
    /\ appended = <<>>
    /\ disk = <<>>
    /\ writer = <<>>
    /\ NoThreads

NextFresh ==
    \/ \E a \in CoinGeckoAnswers, b \in ExchangeRateAnswers \cup {ZeroRateAnswer},
          d \in Durations :
            RunUpdate(<<CoinGeckoClient, ExchangeRateApiClient>>, "", Answers(a, b), d)
    \/ AreRatesFresh
    \/ \E step \in TickSteps : Tick(step)

SpecFresh == InitFresh /\ [][NextFresh]_vars


\* rate caches as they may be found: no file, text that is not JSON, bytes that are
\* not UTF-8, a JSON array, an empty object, snapshots without last_refresh or
\* with one that is no time stamp, and the default snapshot
FoundStores ==
    {MissingFile, CorruptFile, BinaryFile, ListDocument, EmptyDict,
     [Snapshot(EmptyMap, NoTime) EXCEPT !.keys = {"pairs"}],
     Snapshot(EmptyMap, Malformed), Snapshot(EmptyMap, NonString),
     DefaultRates(0)}

\* the rate store read, checked and updated on whatever is found in data/rates.json
InitStore ==
    /\ wallet = NoWallet
    /\ deposited = Zero
    /\ withdrawn = Zero
    /\ portfolio = NoPortfolio
    /\ portfolios = <<>>
    /\ exchange_rates = NoRates
    /\ call = NoCall
    /\ utc_offset = 0
    /\ now = 0
    /\ rates_file \in FoundStores
    /\ history_file = HistoryDocument(<<>>)
    /\ appended = <<>>
    /\ disk = <<>>
    /\ writer = <<>>
    /\ NoThreads

NextStore ==
    \/ LoadCurrentRates
    \/ AreRatesFresh
    \/ \E a \in CoinGeckoAnswers, b \in ExchangeRateAnswers, d \in Durations :
            RunUpdate(<<CoinGeckoClient, ExchangeRateApiClient>>, "", Answers(a, b), d)

SpecStore == InitStore /\ [][NextStore]_vars


\* the history files append_to_history may find: none, one that is not JSON, a
\* JSON object, and the empty array DatabaseManager._init_data_files creates
FoundHistories == {MissingHistory, CorruptHistory, ObjectHistory, HistoryDocument(<<>>)}

\* the records appended
RecordInputs ==
    {history_record("BTC_USD", RateData(FromInt(2), t, "CoinGecko"), CoinGeckoClient) :
        t \in {0, 300}}
        \cup {history_record("EUR_USD", RateData(FromInt(1), 0, "ExchangeRate-API"),
                             ExchangeRateApiClient)}

\* append_to_history called over and over
InitHistory ==
    /\ wallet = NoWallet
    /\ deposited = Zero
    /\ withdrawn = Zero
    /\ portfolio = NoPortfolio
    /\ portfolios = <<>>
    /\ exchange_rates = NoRates
    /\ call = NoCall
    /\ utc_offset = 0
    /\ now = 0
    /\ rates_file = MissingFile
    /\ history_file \in FoundHistories
    /\ appended = <<>>
    /\ disk = <<>>
    /\ writer = <<>>
    /\ NoThreads

NextHistory == \E record \in RecordInputs : AppendToHistory(record)

SpecHistory == InitHistory /\ [][NextHistory]_vars


-----------------------------------------------------------------------------
(* Writing the persisted documents.  disk[f] is what the file f holds:      *)
(* [state, version], state "complete" for the whole document number         *)
(* version, "empty" for a file of no bytes and "partial" for the beginning  *)
(* of document number version.  writer is the write in progress.            *)

UsersFile == "users.json"
PortfoliosFile == "portfolios.json"
RatesFile == "rates.json"
HistoryFile == "exchange_rates.json"

\* the files DatabaseManager writes (create_user, create_portfolio,
\* update_portfolio) and the files RatesStorage writes
DatabaseFiles == {UsersFile, PortfoliosFile}
StorageFiles == {RatesFile, HistoryFile}

Idle == [pc |-> "idle"]
Complete(version) == [state |-> "complete", version |-> version]

\* DatabaseManager._write_json, open(file_path, 'w'): the file is cut to no bytes
DatabaseManager_open(f) ==
    /\ writer = Idle
    /\ f \in DatabaseFiles
    /\ disk[f].version < MaxWrites
    /\ disk' = [disk EXCEPT ![f] = [state |-> "empty", version |-> @.version + 1]]
    /\ writer' = [pc |-> "dump", file |-> f]
    /\ UNCHANGED <<proc_vars, core_vars, call, rates_file, history_file, now,
                   utc_offset, appended>>

\* DatabaseManager._write_json, json.dump: the beginning of the document reaches
\* the file
DatabaseManager_dump ==
    /\ writer.pc = "dump"
    /\ disk' = [disk EXCEPT ![writer.file].state = "partial"]
    /\ writer' = [pc |-> "close", file |-> writer.file]
    /\ UNCHANGED <<proc_vars, core_vars, call, rates_file, history_file, now,
                   utc_offset, appended>>

\* DatabaseManager._write_json, the end of the with block: the rest of the document
\* reaches the file
DatabaseManager_close ==
    /\ writer.pc \in {"dump", "close"}
    /\ disk' = [disk EXCEPT ![writer.file].state = "complete"]
    /\ writer' = Idle
    /\ UNCHANGED <<proc_vars, core_vars, call, rates_file, history_file, now,
                   utc_offset, appended>>

\* RatesStorage._write_json, the NamedTemporaryFile block: the document is written
\* to a new file beside f
RatesStorage_write_temp(f) ==
    /\ writer = Idle
    /\ f \in StorageFiles
    /\ disk[f].version < MaxWrites
    /\ writer' = [pc |-> "replace", file |-> f]
    /\ UNCHANGED <<proc_vars, core_vars, call, rates_file, history_file, now,
                   utc_offset, appended,
                   disk>>

\* RatesStorage._write_json, tmp_file_path.replace(file_path): the new file takes
\* the place of f
RatesStorage_replace ==
    /\ writer.pc = "replace"
    /\ disk' = [disk EXCEPT ![writer.file] = Complete(@.version + 1)]
    /\ writer' = Idle
    /\ UNCHANGED <<proc_vars, core_vars, call, rates_file, history_file, now,
                   utc_offset, appended>>

\* the writing process dies where it is
Crash ==
    /\ writer # Idle
    /\ writer' = Idle
    /\ UNCHANGED <<proc_vars, core_vars, call, rates_file, history_file, now,
                   utc_offset, appended,
                   disk>>

\* a reader opens f and reads it (get_portfolio, get_rates, load_current_rates and
\* load_history take no lock; get_all_users takes the lock of its own process, which
\* holds back neither another process nor a reader after a crash)
ReadFile(f) ==
    /\ call' = [op |-> "read", file |-> f, seen |-> disk[f],
                writing |-> writer # Idle /\ writer.file = f]
    /\ UNCHANGED <<proc_vars, core_vars, rates_file, history_file, now, utc_offset,
                   appended,
                   disk, writer>>

\* the four persisted files, each holding a whole document, written and read
InitWrite ==
    /\ wallet = NoWallet
    /\ deposited = Zero
    /\ withdrawn = Zero
    /\ portfolio = NoPortfolio
    /\ portfolios = <<>>
    /\ exchange_rates = NoRates
    /\ call = NoCall
    /\ utc_offset = 0
    /\ now = 0
    /\ rates_file = MissingFile
    /\ history_file = HistoryDocument(<<>>)
    /\ appended = <<>>
    /\ disk = [f \in DatabaseFiles \cup StorageFiles |-> Complete(0)]
    /\ writer = Idle
    /\ NoThreads

NextWrite ==
    \/ \E f \in DatabaseFiles : DatabaseManager_open(f)
    \/ DatabaseManager_dump
    \/ DatabaseManager_close
    \/ \E f \in StorageFiles : RatesStorage_write_temp(f)
    \/ RatesStorage_replace
    \/ Crash
    \/ \E f \in DatabaseFiles \cup StorageFiles : ReadFile(f)

SpecWrite == InitWrite /\ [][NextWrite]_vars

-----------------------------------------------------------------------------
(* Claims about the aggregation run.                                        *)

\* the elements of a sequence
Range(seq) == {seq[i] : i \in 1..Len(seq)}

Ran == call.op = "run_update"

\* the clients the last run selected
Selected == Range(clients_to_use(call.clients, call.source))

\* the request of client c of the last run failed: no usable answer, or (for the
\* fiat provider, which takes reciprocals) a conversion rate of 0
ProviderFailed(c) ==
    \/ ~call.answers[c].ok
    \/ /\ c = ExchangeRateApiClient
       /\ \E i \in 1..Len(call.answers[c].data) : IsZero(call.answers[c].data[i][2])

\* the pair keys client c returned in the last run
ReturnedPairs(c) ==
    IF ProviderFailed(c) THEN {}
    ELSE {PairKey(call.answers[c].data[i][1], "USD") : i \in 1..Len(call.answers[c].data)}

\* the source name a client stamps on its rates
SourceName(c) == IF c = CoinGeckoClient THEN "CoinGecko" ELSE "ExchangeRate-API"

\* C11: when a selected provider's fetch_rates fails, run_update still returns a
\* summary, every selected provider has been asked, every pair returned by a
\* selected provider that succeeded is persisted in the rate cache as that provider
\* gave it, and the persisted last_refresh is a time stamp not earlier than the
\* beginning of the run
C11_PartialFailureTolerated ==
    (Ran /\ \E c \in Selected : ProviderFailed(c)) =>
        /\ call.err = "none"
        /\ \A c \in Selected : c \in Range(call.fetched)
        /\ rates_file.kind = "dict"
        /\ \A c \in Selected : \A pair \in ReturnedPairs(c) :
              /\ pair \in DOMAIN rates_file.pairs
              /\ rates_file.pairs[pair].source = SourceName(c)
        /\ rates_file.last_refresh.k = "time"
        /\ rates_file.last_refresh.t >= now - Len(call.fetched) * call.d

\* C11 happens: the first of two providers failed, the second was asked all the same
\* and its pair is in the cache
C11_SecondProviderMerged ==
    /\ Ran
    /\ call.clients = <<ExchangeRateApiClient, CoinGeckoClient>>
    /\ call.source = ""
    /\ ProviderFailed(ExchangeRateApiClient)
    /\ ~ProviderFailed(CoinGeckoClient)
    /\ call.fetched = <<ExchangeRateApiClient, CoinGeckoClient>>
    /\ "BTC_USD" \in DOMAIN rates_file.pairs
    /\ rates_file.pairs["BTC_USD"].source = "CoinGecko"
    /\ rates_file.pairs["BTC_USD"].rate = FromInt(2)

\* the selected clients of the last run that failed, in the order they were asked
FailedClients == SelectSeq(clients_to_use(call.clients, call.source), ProviderFailed)

\* C12: the summary of a run has success true exactly when no selected provider
\* failed, one error per failed provider (in the order the providers were asked), and
\* as updated_pairs exactly the pair keys returned by the providers that succeeded,
\* each once
C12_RunSummary ==
    (Ran /\ call.err = "none") =>
        /\ call.summary.success <=> (\A c \in Selected : ~ProviderFailed(c))
        /\ call.summary.errors = FailedClients
        /\ Range(call.summary.updated_pairs) = UNION {ReturnedPairs(c) : c \in Selected}
        /\ Len(call.summary.updated_pairs)
              = Cardinality(UNION {ReturnedPairs(c) : c \in Selected})

\* C12 happens: the first provider gave BTC_USD and the second failed
C12_OneUpdatedOneError ==
    /\ Ran
    /\ call.clients = <<CoinGeckoClient, ExchangeRateApiClient>>
    /\ ~ProviderFailed(CoinGeckoClient)
    /\ ProviderFailed(ExchangeRateApiClient)
    /\ call.summary.success = FALSE
    /\ call.summary.updated_pairs = <<"BTC_USD">>
    /\ call.summary.errors = <<ExchangeRateApiClient>>

\* the source name source names client c
Matches(source, c) ==
    \/ Lower(source) = "coingecko" /\ c = CoinGeckoClient
    \/ Lower(source) = "exchangerate" /\ c = ExchangeRateApiClient

\* C13: when a source is named and no configured client matches it (the name is
\* not recognised, or its provider is not configured), the run asks no provider and
\* its summary has no updated pair, success true and no error
C13_UnmatchedSourceIsNoOp ==
    (/\ Ran
     /\ call.err = "none"
     /\ call.source # ""
     /\ \A c \in Range(call.clients) : ~Matches(call.source, c)) =>
        /\ call.fetched = <<>>
        /\ call.summary.updated_pairs = <<>>
        /\ call.summary.success
        /\ call.summary.errors = <<>>

\* C14: after a run the persisted last_refresh is the time the run started at, the
\* time stamp of its summary, whether or not a provider failed
C14_LastRefreshIsRunStart ==
    (Ran /\ call.err = "none") =>
        /\ rates_file.kind = "dict"
        /\ "last_refresh" \in rates_file.keys
        /\ rates_file.last_refresh = call.summary.timestamp

\* the greatest element of a non-empty set of integers
Max(S) == CHOOSE x \in S : \A y \in S : y <= x

\* the updated_at of the pairs the last run merged
MergedUpdatedAt ==
    {rates_file.pairs[pair].updated_at : pair \in Range(call.summary.updated_pairs)}

\* C15: in the snapshot a run persists, last_refresh is the greatest updated_at of
\* the pairs that run merged
C15_LastRefreshIsMaxUpdatedAt ==
    (Ran /\ call.err = "none" /\ call.summary.updated_pairs # <<>>) =>
        rates_file.last_refresh = Time(Max(MergedUpdatedAt))

-----------------------------------------------------------------------------
(* Claims about freshness.                                                  *)

Checked == call.op = "are_rates_fresh"

\* C16: for a cache written by run_update, are_rates_fresh is true exactly when less
\* than RATES_TTL_SECONDS have passed since the stored last_refresh, both read on
\* the clock run_update stamps last_refresh with (UTC), whatever the offset of the
\* machine's local time: true right after the run, false once more than the TTL
\* has passed
C16_FreshWithinTTL ==
    (Checked /\ call.written_by_run) =>
        /\ call.err = "none"
        /\ call.val <=> (call.at - call.file.last_refresh.t < RATES_TTL_SECONDS)

\* the cache holds no last_refresh that can be read as a time stamp
NoUsableRefresh(file) ==
    \/ file.kind # "dict"
    \/ "last_refresh" \notin file.keys
    \/ file.last_refresh.k # "time"

\* C17: are_rates_fresh returns false, and raises nothing, when the cache is missing
\* or corrupt, has no last_refresh, or has a last_refresh that is a malformed
\* string or no string
C17_UnreadableIsStale ==
    (Checked /\ NoUsableRefresh(call.file)) =>
        /\ call.err = "none"
        /\ call.val = FALSE

-----------------------------------------------------------------------------
(* Claims about the rate store.                                             *)

\* C19: load_current_rates raises nothing and returns the empty snapshot when the
\* file is missing, unreadable or holds no snapshot object, and every run_update
\* on the stores of SpecStore (stores as found, or as an earlier run left them)
\* completes
C19_LoadNeverRaises ==
    /\ (call.op = "load_current_rates" /\ call.file.kind # "dict") =>
          /\ call.err = "none"
          /\ call.val = EmptyDict
    /\ Ran => call.err = "none"

\* the number of records the history holds after the appends so far
Retained == IF Len(appended) <= MAX_HISTORY_SIZE THEN Len(appended) ELSE MAX_HISTORY_SIZE

\* C18: after any sequence of append_to_history calls on a history that held no
\* record, the persisted history is a list of at most MAX_HISTORY_SIZE records: the
\* records appended last, in the order they were appended
C18_HistoryKeepsNewest ==
    (appended # <<>>) =>
        /\ history_file.kind = "list"
        /\ Len(history_file.records) <= MAX_HISTORY_SIZE
        /\ Len(history_file.records) = Retained
        /\ \A i \in 1..Retained :
              history_file.records[i] = appended[Len(appended) - Retained + i]

\* C18 happens: more records than the bound were appended, and the oldest of them,
\* which differs from what is kept in its place, is gone
C18_OldestDropped ==
    /\ call.op = "append_to_history"
    /\ Len(appended) > MAX_HISTORY_SIZE
    /\ Len(history_file.records) = MAX_HISTORY_SIZE
    /\ history_file.records[1] # appended[1]
    /\ history_file.records[MAX_HISTORY_SIZE] = call.record

\* C20: whenever a persisted file is read, during a write or after a crash in the
\* middle of one, the reader finds a whole document: the old one or the new one
C20_ReadersSeeWholeDocuments ==
    call.op = "read" => call.seen.state = "complete"

-----------------------------------------------------------------------------
(* Claims about the trading use cases and the persisted portfolio.          *)

\* the balance user_id holds of currency code in document doc, 0.0 without a wallet
PersistedBalance(doc, user_id, code) ==
    IF code \in DOMAIN PersistedWallets(doc, user_id)
    THEN PersistedWallets(doc, user_id)[code].balance
    ELSE Zero

\* the last trade was valid and its currency has no rate to USD that resolves
Unpriced(op) ==
    /\ ValidTrade(op)
    /\ _get_exchange_rate(exchange_rates, Upper(call.currency_code), "USD").err # "none"

\* C26: a valid buy, and a valid sell of no more than the balance held, whose
\* currency cannot be priced in USD persists the changed balance all the same and
\* returns success with no rate and no USD value
C26_PricingFailureKeepsTrade ==
    /\ Unpriced("buy_currency") =>
          /\ call.err = "none"
          /\ call.rate = None
          /\ call.usd_value = None
          /\ PersistedBalance(portfolios, call.user_id, Upper(call.currency_code))
                = FAdd(PersistedBalance(call.before, call.user_id,
                                        Upper(call.currency_code)), call.amount)
    /\ (/\ Unpriced("sell_currency")
        /\ Upper(call.currency_code) \in DOMAIN PersistedWallets(call.before, call.user_id)
        /\ FLe(call.amount, PersistedBalance(call.before, call.user_id,
                                             Upper(call.currency_code)))) =>
          /\ call.err = "none"
          /\ call.rate = None
          /\ call.usd_value = None
          /\ PersistedBalance(portfolios, call.user_id, Upper(call.currency_code))
                = FSub(PersistedBalance(call.before, call.user_id,
                                        Upper(call.currency_code)), call.amount)

\* the ways a trade fails that the use cases name
TradeFailures ==
    {"CurrencyNotFoundError", "ValueError", "TypeError", "WalletNotFoundError",
     "InsufficientFundsError"}

\* C29: a buy_currency or sell_currency call that fails (unknown currency, amount
\* that is not positive or no number, WalletNotFoundError, InsufficientFundsError)
\* leaves the persisted portfolio document as it was before the call
C29_FailedTradeChangesNothing ==
    (call.op \in {"buy_currency", "sell_currency"} /\ call.err \in TradeFailures) =>
        portfolios = call.before

\* C29 happens: a sell of a currency the user does not hold failed on a document
\* that holds entries, and the document is what it was
C29_SellWithoutWallet ==
    /\ call.op = "sell_currency"
    /\ call.err = "WalletNotFoundError"
    /\ call.before # <<>>
    /\ portfolios = call.before

\* C30: load_user_portfolio gives, for every persisted wallet (all the persisted
\* balances of SpecPortfolio are numbers >= 0, 0 included), a wallet with the
\* persisted balance, and no other wallet
C30_LoadReconstructsWallets ==
    call.op = "load_user_portfolio" =>
        /\ call.err = "none"
        /\ DOMAIN portfolio.wallets = DOMAIN PersistedWallets(portfolios, call.user_id)
        /\ \A c \in DOMAIN PersistedWallets(portfolios, call.user_id) :
              portfolio.wallets[c].balance
                  = PersistedWallets(portfolios, call.user_id)[c].balance

-----------------------------------------------------------------------------
(* Claims about what one run changes.                                       *)

\* the pairs mapping a run starts from on the rates file file
PairsOf(file) ==
    IF file.kind = "dict" /\ "pairs" \in file.keys THEN file.pairs ELSE EmptyMap

\* the entry client gave for pair when its answer was parsed at UTC second t
EntryFrom(client, answers, t, pair) ==
    LET Entry(rates) == rates[CHOOSE i \in 1..Len(rates) : rates[i][1] = pair][2]
    IN  Entry(fetch_rates(client, answers[client], t).rates)

\* the clients the last run selected, in list order, and the positions in that
\* list of the clients that returned pair
UsedClients == clients_to_use(call.clients, call.source)
Suppliers(pair) == {i \in 1..Len(UsedClients) : pair \in ReturnedPairs(UsedClients[i])}

\* a step is a run that completed
RunStep == call'.op = "run_update" /\ call'.err = "none"

C28_HistoryPerRun ==
    [][RunStep =>
        /\ history_file'.kind = "list"
        /\ history_file'.records
              = LastN(load_history(history_file) \o call'.records, MAX_HISTORY_SIZE)
        /\ Len(call'.records) = Len(call'.summary.updated_pairs)
        /\ \A i \in 1..Len(call'.records) :
              /\ PairKey(call'.records[i].from_currency, call'.records[i].to_currency)
                    = call'.summary.updated_pairs[i]
              /\ \E j \in 1..Len(UsedClients') : \E c \in {UsedClients'[j]} :
                    /\ call'.summary.updated_pairs[i] \in ReturnedPairs(c)'
                    /\ call'.records[i].client = c
                    /\ RateData(call'.records[i].rate, call'.records[i].timestamp,
                                call'.records[i].source)
                          = EntryFrom(UsedClients'[j], call'.answers,
                                      now + j * call'.d, call'.summary.updated_pairs[i])
    ]_vars

\* C28 happens: a run of both providers appended the record of BTC_USD and then the
\* record of EUR_USD
C28_TwoRecordsAppended ==
    /\ Ran
    /\ call.summary.updated_pairs = <<"BTC_USD", "EUR_USD">>
    /\ Len(call.records) = 2
    /\ call.records[1].client = CoinGeckoClient
    /\ call.records[2].client = ExchangeRateApiClient
    /\ call.records[2].from_currency = "EUR"
    /\ call.records[2].to_currency = "USD"
    /\ history_file.records = appended

-----------------------------------------------------------------------------
(* The rates of a TradingUsecases object (core/utils.py, core/usecases.py). *)

\* get_exchange_rates(): the rate of every pair of the cache that has one, {} for
\* a cache without a pairs mapping
get_exchange_rates(file) ==
    LET Rates(rates_data) ==
            IF rates_data.kind = "dict" /\ "pairs" \in rates_data.keys
            THEN [pair \in DOMAIN rates_data.pairs |-> rates_data.pairs[pair].rate]
            ELSE EmptyMap
    IN  Rates(get_rates(file))

\* TradingUsecases(): the object reads the rates once, when it is constructed
TradingUsecases ==
    /\ exchange_rates' = get_exchange_rates(rates_file)
    /\ call' = [op |-> "TradingUsecases"]
    /\ UNCHANGED <<wallet, deposited, withdrawn, portfolio, portfolios>>
    /\ UNCHANGED <<store_vars, proc_vars>>

\* a constructed TradingUsecases object on the caches the program leaves behind
InitSnapshot ==
    /\ wallet = NoWallet
    /\ deposited = Zero
    /\ withdrawn = Zero
    /\ portfolio = NoPortfolio
    /\ portfolios = <<>>
    /\ call = NoCall
    /\ utc_offset = 0
    /\ now = 0
    /\ rates_file \in UpdateStores(utc_offset)
    /\ exchange_rates = get_exchange_rates(rates_file)
    /\ history_file = HistoryDocument(<<>>)
    /\ appended = <<>>
    /\ disk = <<>>
    /\ writer = <<>>
    /\ NoThreads

\* the object is used, a run of both providers updates the cache, and the program
\* is started again
NextSnapshot ==
    \/ \E f \in RateCurrencies, t \in RateCurrencies : GetExchangeRate(f, t)
    \/ \E answers \in AnswerInputs :
          RunUpdate(<<CoinGeckoClient, ExchangeRateApiClient>>, "", answers, 0)
    \/ TradingUsecases

SpecSnapshot == InitSnapshot /\ [][NextSnapshot]_vars

\* C24: every rate the object resolves is the rate the resolver gives on the cache
\* as it is persisted at the time of the call, also after a run has changed a pair
\* since the object was constructed
C24_PricesAgainstPersistedCache ==
    call.op = "_get_exchange_rate" =>
        [err |-> call.err, val |-> call.val]
            = _get_exchange_rate(get_exchange_rates(rates_file),
                                 call.from_currency, call.to_currency)

-----------------------------------------------------------------------------
(* Portfolio valuation (core/models.py, core/usecases.py).  The wallets of  *)
(* a portfolio are visited in the order of CodeOrder; the program visits    *)
(* them in the order of the persisted document.                             *)

CodeOrder == <<"BTC", "EUR", "USD">>

\* the currency codes of wallets, in the order they are visited
held(wallets) ==
    LET Held(code) == code \in DOMAIN wallets
    IN  SelectSeq(CodeOrder, Held)

\* the loop of Portfolio.get_total_value over the wallets codes: the base wallet adds
\* its balance, a wallet with a direct pair balance * rate, a wallet with only the
\* reverse pair balance / rate, every other wallet nothing
RECURSIVE TotalValue(_, _, _, _, _)
TotalValue(codes, wallets, rates, base_currency, total_value) ==
    IF codes = <<>> THEN Return(total_value)
    ELSE IF Head(codes) = base_currency
    THEN TotalValue(Tail(codes), wallets, rates, base_currency,
                    FAdd(total_value, wallets[Head(codes)].balance))
    ELSE IF PairKey(Head(codes), base_currency) \in DOMAIN rates
    THEN TotalValue(Tail(codes), wallets, rates, base_currency,
                    FAdd(total_value,
                         FMul(wallets[Head(codes)].balance,
                              rates[PairKey(Head(codes), base_currency)])))
    ELSE IF PairKey(base_currency, Head(codes)) \in DOMAIN rates
    THEN IF IsZero(rates[PairKey(base_currency, Head(codes))])
         THEN Raise("ZeroDivisionError")
         ELSE TotalValue(Tail(codes), wallets, rates, base_currency,
                         FAdd(total_value,
                              FDiv(wallets[Head(codes)].balance,
                                   rates[PairKey(base_currency, Head(codes))])))
    ELSE TotalValue(Tail(codes), wallets, rates, base_currency, total_value)

\* Portfolio.get_total_value(exchange_rates, base_currency): [err, val]
get_total_value(p, rates, base_currency) ==
    TotalValue(held(p.wallets), p.wallets, rates, Upper(base_currency), Zero)

\* one element of wallets_info: ValueError of the resolver gives no rate and no value
wallet_info(w, r) ==
    IF r.err = "none"
    THEN [balance |-> w.balance, rate |-> r.val, value_in_base |-> FMul(w.balance, r.val)]
    ELSE [balance |-> w.balance, rate |-> None, value_in_base |-> None]

\* what get_portfolio gives: the exception raised or "none", total_value, wallets
PortfolioInfo(err, total_value, wallets) ==
    [err |-> err, total_value |-> total_value, wallets |-> wallets]

\* TradingUsecases.get_portfolio on the document doc with the rates of the object
get_portfolio_info(doc, rates, user_id, base_currency) ==
    LET Priced(code) == _get_exchange_rate(rates, code, base_currency)
        Info(p, total) ==
            IF total.err # "none" THEN PortfolioInfo(total.err, None, EmptyMap)
            ELSE IF \E c \in DOMAIN p.wallets : Priced(c).err \notin {"none", "ValueError"}
            THEN PortfolioInfo("ZeroDivisionError", None, EmptyMap)
            ELSE PortfolioInfo("none", total.val,
                               [c \in DOMAIN p.wallets |->
                                   wallet_info(p.wallets[c], Priced(c))])
        Loaded(loaded) ==
            IF loaded.err # "none" THEN PortfolioInfo(loaded.err, None, EmptyMap)
            ELSE Info(loaded.portfolio,
                      get_total_value(loaded.portfolio, rates, base_currency))
    IN  Loaded(load_user_portfolio(doc, user_id))

\* trading_usecases.get_portfolio(user_id, base_currency)
GetPortfolio(user_id, base_currency) ==
    /\ LET r == get_portfolio_info(portfolios, exchange_rates, user_id, base_currency)
       IN  call' = [op |-> "get_portfolio", user_id |-> user_id,
                    base_currency |-> base_currency, err |-> r.err,
                    total_value |-> r.total_value, wallets |-> r.wallets]
    /\ UNCHANGED core_vars
    /\ UNCHANGED <<store_vars, proc_vars>>

\* the rates the valuation is run with: none, both currencies to USD, only the
\* reverse pairs, a reverse pair of rate 0
ValuationSnapshots ==
    {EmptyMap,
     Put(Put(EmptyMap, "BTC_USD", FromInt(4)), "EUR_USD", FromInt(2)),
     Put(Put(EmptyMap, "USD_BTC", FromInt(4)), "USD_EUR", FromInt(2)),
     Put(EmptyMap, "USD_EUR", Zero)}

BaseCurrencies == {"USD", "EUR", "BTC"}

InitValuation ==
    /\ wallet = NoWallet
    /\ deposited = Zero
    /\ withdrawn = Zero
    /\ portfolio = NoPortfolio
    /\ portfolios \in PortfolioDocs
    /\ exchange_rates \in ValuationSnapshots
    /\ call = NoCall
    /\ StoreIdle
    /\ NoThreads

NextValuation ==
    \E user_id \in UserIds, base_currency \in BaseCurrencies :
        GetPortfolio(user_id, base_currency)

SpecValuation == InitValuation /\ [][NextValuation]_vars

\* the value of a wallet of currency code in the base currency by the resolver, 0.0
\* when the resolver finds no rate
ValueInBase(w, r) == IF r.err = "none" THEN FMul(w.balance, r.val) ELSE Zero

\* the sum of the values of the wallets codes
RECURSIVE SumOfValues(_, _, _, _)
SumOfValues(codes, wallets, rates, base_currency) ==
    IF codes = <<>> THEN Zero
    ELSE FAdd(SumOfValues(SubSeq(codes, 1, Len(codes) - 1), wallets, rates, base_currency),
              ValueInBase(wallets[codes[Len(codes)]],
                          _get_exchange_rate(rates, codes[Len(codes)], base_currency)))

\* C25: get_portfolio returns as total_value the sum over the user's wallets of
\* balance times the resolver's rate to the base currency, a wallet without a rate
\* counting 0.0, and reports each wallet with that value, or with no value when the
\* resolver finds no rate; a wallet in the base currency counts its balance
C25_TotalIsSumOfBreakdown ==
    (/\ call.op = "get_portfolio"
     /\ \A c \in DOMAIN PersistedWallets(portfolios, call.user_id) :
           _get_exchange_rate(exchange_rates, c, call.base_currency).err
               \in {"none", "ValueError"}) =>
        /\ call.err = "none"
        /\ DOMAIN call.wallets = DOMAIN PersistedWallets(portfolios, call.user_id)
        /\ call.total_value
              = SumOfValues(held(PersistedWallets(portfolios, call.user_id)),
                            PersistedWallets(portfolios, call.user_id),
                            exchange_rates, call.base_currency)
        /\ \A c \in DOMAIN call.wallets :
              call.wallets[c]
                  = wallet_info(PersistedWallets(portfolios, call.user_id)[c],
                                _get_exchange_rate(exchange_rates, c, call.base_currency))

-----------------------------------------------------------------------------
(* The store lock (infra/database.py).  DatabaseManager._lock is one        *)
(* threading.Lock, which is not reentrant: acquire() waits while the lock   *)
(* is held, whichever thread holds it.  A thread is [stack, calls]: the     *)
(* frames of the DatabaseManager methods it is in, the innermost last, and  *)
(* the number of operations it has called.  A frame is [op, pc, arg,        *)
(* users]: pc "acquire" at `with self._lock:`, "locked" inside the block,   *)
(* "got_users" and "created" in create_user after the methods it calls      *)
(* have returned; users is the local variable of create_user.               *)

ThreadIds == {1, 2}

Frame(op, arg) == [op |-> op, pc |-> "acquire", arg |-> arg, users |-> <<>>]

Top(stack) == stack[Len(stack)]
Pop(stack) == SubSeq(stack, 1, Len(stack) - 1)
SetTop(stack, frame) == [stack EXCEPT ![Len(stack)] = frame]

\* what a step inside the lock leaves: the lock, the stack of the thread, the four
\* documents, and the exception that ended the outermost call or "none"
Locked(l, stack, us, ps, rf, hf, err) ==
    [lock |-> l, stack |-> stack, users |-> us, portfolios |-> ps, rates_file |-> rf,
     history_file |-> hf, err |-> err]

\* the method of the innermost frame returns to its caller, which goes on at pc
Returned(stack, pc) ==
    IF Len(stack) = 1 THEN <<>>
    ELSE SetTop(Pop(stack), [Top(Pop(stack)) EXCEPT !.pc = pc])

\* get_all_users returns us to its caller
GotUsers(stack, us) ==
    IF Len(stack) = 1 THEN <<>>
    ELSE SetTop(Pop(stack), [Top(Pop(stack)) EXCEPT !.pc = "got_users", !.users = us])

\* the end of a `with self._lock:` block that is left with err: release() of a lock
\* that is not held raises RuntimeError
ExitWith(l, err) == IF l = 0 THEN "RuntimeError" ELSE err

\* the user_id create_user gives: max of the ids, default 0, plus 1
next_user_id(us) ==
    IF us = <<>> THEN 1
    ELSE 1 + CHOOSE n \in {us[i].user_id : i \in 1..Len(us)} :
                 \A i \in 1..Len(us) : us[i].user_id <= n

\* DatabaseManager.create_portfolio inside the lock: the portfolio document
create_portfolio(ps, user_id) ==
    IF \E i \in 1..Len(ps) : ps[i].user_id = user_id THEN ps
    ELSE Append(ps, [user_id |-> user_id, wallets |-> EmptyMap])

\* DatabaseManager.add_exchange_rate_record inside the lock: the history document
add_exchange_rate_record(hf, record) ==
    HistoryDocument(Append(IF hf.kind = "list" THEN hf.records ELSE <<>>, record))

\* the step of the innermost frame f of the stack of a thread that is inside the
\* `with` block of f, the lock being l
run_locked(f, stack, l, us, ps, rf, hf) ==
    CASE f.op = "get_all_users" ->
            Locked(0, GotUsers(stack, us), us, ps, rf, hf, ExitWith(l, "none"))
      [] f.op = "create_user" /\ f.pc = "locked" ->
            Locked(l, stack \o <<Frame("get_all_users", 0)>>, us, ps, rf, hf, "none")
      [] f.op = "create_user" /\ f.pc = "got_users" ->
            IF \E i \in 1..Len(f.users) : f.users[i].username = f.arg
            THEN Locked(0, Pop(stack), us, ps, rf, hf, ExitWith(l, "ValueError"))
            ELSE Locked(l,
                        stack \o <<Frame("create_portfolio", next_user_id(f.users))>>,
                        Append(f.users, [user_id |-> next_user_id(f.users),
                                         username |-> f.arg]),
                        ps, rf, hf, "none")
      [] f.op = "create_user" /\ f.pc = "created" ->
            Locked(0, Pop(stack), us, ps, rf, hf, ExitWith(l, "none"))
      [] f.op = "create_portfolio" ->
            Locked(0, Returned(stack, "created"), us, create_portfolio(ps, f.arg),
                   rf, hf, ExitWith(l, "none"))
      [] f.op = "update_portfolio" ->
            Locked(0, Pop(stack), us, update_portfolio(ps, f.arg.user_id, f.arg.wallets),
                   rf, hf, ExitWith(l, "none"))
      [] f.op = "update_rates" ->
            Locked(0, Pop(stack), us, ps, f.arg, hf, ExitWith(l, "none"))
      [] f.op = "add_exchange_rate_record" ->
            Locked(0, Pop(stack), us, ps, rf, add_exchange_rate_record(hf, f.arg),
                   ExitWith(l, "none"))

\* the operations of DatabaseManager that take the lock, and the argument each is
\* called with
LockOperations ==
    {"get_all_users", "create_user", "create_portfolio", "update_portfolio",
     "update_rates", "add_exchange_rate_record"}

Argument(op) ==
    CASE op = "get_all_users" -> 0
      [] op = "create_user" -> "alice"
      [] op = "create_portfolio" -> 1
      [] op = "update_portfolio" ->
            [user_id |-> 1, wallets |-> Put(EmptyMap, "BTC", [balance |-> FromInt(2)])]
      [] op = "update_rates" -> DefaultRates(0)
      [] op = "add_exchange_rate_record" ->
            history_record("BTC_USD", RateData(FromInt(2), 0, "CoinGecko"), CoinGeckoClient)

\* thread t calls the operation op of the DatabaseManager
CallOperation(t, op) ==
    /\ threads[t].stack = <<>>
    /\ threads[t].calls < MaxCalls
    /\ threads' = [threads EXCEPT ![t] = [stack |-> <<Frame(op, Argument(op))>>,
                                          calls |-> @.calls + 1]]
    /\ call' = [op |-> op, thread |-> t, err |-> "running"]
    /\ UNCHANGED <<lock, users, core_vars, store_vars>>

\* `with self._lock:` of the innermost method of thread t: acquire() returns once
\* the lock is free
Acquire(t) ==
    /\ threads[t].stack # <<>>
    /\ Top(threads[t].stack).pc = "acquire"
    /\ lock = 0
    /\ lock' = t
    /\ threads' = [threads EXCEPT ![t].stack = SetTop(@, [Top(@) EXCEPT !.pc = "locked"])]
    /\ UNCHANGED <<users, call, core_vars, store_vars>>

RunLockedDone(t, r) ==
    /\ lock' = r.lock
    /\ threads' = [threads EXCEPT ![t].stack = r.stack]
    /\ users' = r.users
    /\ portfolios' = r.portfolios
    /\ rates_file' = r.rates_file
    /\ history_file' = r.history_file
    /\ call' = IF r.stack = <<>>
               THEN [op |-> threads[t].stack[1].op, thread |-> t, err |-> r.err]
               ELSE call

\* thread t goes on inside the `with` block of its innermost method
RunLocked(t) ==
    /\ threads[t].stack # <<>>
    /\ Top(threads[t].stack).pc # "acquire"
    /\ RunLockedDone(t, run_locked(Top(threads[t].stack), threads[t].stack, lock, users,
                                   portfolios, rates_file, history_file))
    /\ UNCHANGED <<wallet, deposited, withdrawn, portfolio, exchange_rates, now,
                   utc_offset, appended, disk, writer>>

\* two threads of one process, no operation in progress
InitLock ==
    /\ wallet = NoWallet
    /\ deposited = Zero
    /\ withdrawn = Zero
    /\ portfolio = NoPortfolio
    /\ portfolios = <<>>
    /\ exchange_rates = NoRates
    /\ call = NoCall
    /\ StoreIdle
    /\ lock = 0
    /\ threads = [t \in ThreadIds |-> [stack |-> <<>>, calls |-> 0]]
    /\ users \in {<<>>, <<[user_id |-> 1, username |-> "alice"]>>}

Step(t) ==
    \/ \E op \in LockOperations : CallOperation(t, op)
    \/ Acquire(t)
    \/ RunLocked(t)

NextLock == \E t \in ThreadIds : Step(t)

SpecLock == InitLock /\ [][NextLock]_vars

\* a thread that can acquire the lock or go on inside it does so in the end
FairLock ==
    SpecLock /\ \A t \in ThreadIds : WF_vars(Acquire(t)) /\ WF_vars(RunLocked(t))

\* thread t is inside an operation of the DatabaseManager
Busy(t) == threads[t].stack # <<>>

\* C23: every operation that takes the store lock returns in the end, and when no
\* operation is in progress the lock is free
C23_OperationsReturn ==
    /\ \A t \in ThreadIds : Busy(t) ~> ~Busy(t)
    /\ []((\A t \in ThreadIds : ~Busy(t)) => lock = 0)

-----------------------------------------------------------------------------
(* Two trades of one user at the same time (core/usecases.py,               *)
(* core/utils.py).  A thread is [op, user_id, currency_code, amount, pc,    *)
(* code, amt, loaded, err]: load_user_portfolio reads portfolios.json       *)
(* without the lock (get_portfolio); the lock is taken only inside          *)
(* update_portfolio, which save_user_portfolio calls, so the rest of a      *)
(* trade, from the wallet lookup to the pricing, is one step on the         *)
(* portfolio loaded.                                                        *)

TradeRequests ==
    [op : {"buy_currency", "sell_currency"}, user_id : {1},
     currency_code : {"BTC", "EUR"}, amount : {FromInt(1), FromInt(2)}]

Trading(request) ==
    [op |-> request.op, user_id |-> request.user_id,
     currency_code |-> request.currency_code,
     amount |-> request.amount, pc |-> "start", code |-> "", amt |-> Zero,
     loaded |-> [err |-> "none", portfolio |-> NoPortfolio], err |-> "none"]

\* thread t validates its arguments and loads the portfolio
TradeLoad(t) ==
    /\ threads[t].pc = "start"
    /\ LET Validated(code, amt) ==
               IF code.err # "none"
               THEN [threads[t] EXCEPT !.pc = "done", !.err = code.err]
               ELSE IF amt.err # "none"
               THEN [threads[t] EXCEPT !.pc = "done", !.err = amt.err]
               ELSE [threads[t] EXCEPT !.pc = "loaded", !.code = code.val,
                                       !.amt = amt.val,
                                       !.loaded = load_user_portfolio(portfolios,
                                                                     threads[t].user_id)]
       IN  threads' = [threads EXCEPT ![t] =
                          Validated(validate_currency_code(threads[t].currency_code),
                                    validate_positive_float(threads[t].amount))]
    /\ UNCHANGED <<lock, users, call, core_vars, store_vars>>

TradeFinishDone(t, r) ==
    /\ portfolios' = r.portfolios
    /\ threads' = [threads EXCEPT ![t].pc = "done", ![t].err = r.err]

\* thread t changes the portfolio it loaded, saves it and prices the trade
TradeFinish(t) ==
    /\ threads[t].pc = "loaded"
    /\ TradeFinishDone(t,
          IF threads[t].op = "buy_currency"
          THEN buy_loaded(portfolios, exchange_rates, threads[t].user_id,
                          threads[t].code, threads[t].amt, threads[t].loaded)
          ELSE sell_loaded(portfolios, exchange_rates, threads[t].user_id,
                           threads[t].code, threads[t].amt, threads[t].loaded))
    /\ UNCHANGED <<wallet, deposited, withdrawn, portfolio, exchange_rates, call,
                   lock, users, store_vars>>

\* two trades of user 1 are about to run on a persisted portfolio document; call
\* keeps the document they start from
InitTrades ==
    /\ wallet = NoWallet
    /\ deposited = Zero
    /\ withdrawn = Zero
    /\ portfolio = NoPortfolio
    /\ portfolios \in PortfolioDocs
    /\ exchange_rates = Put(Put(EmptyMap, "BTC_USD", FromInt(4)), "EUR_USD", FromInt(2))
    /\ call = [op |-> "trades", before |-> portfolios]
    /\ StoreIdle
    /\ lock = 0
    /\ threads \in [ThreadIds -> {Trading(request) : request \in TradeRequests}]
    /\ users = <<>>

NextTrades == \E t \in ThreadIds : TradeLoad(t) \/ TradeFinish(t)

SpecTrades == InitTrades /\ [][NextTrades]_vars

\* the user the two trades belong to
TradeUser == threads[1].user_id

\* the balance b of currency code after the trade of thread t
Traded(b, t, code) ==
    IF threads[t].currency_code # code THEN b
    ELSE IF threads[t].op = "buy_currency" THEN FAdd(b, threads[t].amount)
    ELSE FSub(b, threads[t].amount)

\* what the threads sell of currency code, taken from balance b
AfterSales(b, code) ==
    LET Sold(x, t) ==
            IF threads[t].op = "sell_currency" /\ threads[t].currency_code = code
            THEN FSub(x, threads[t].amount) ELSE x
    IN  Sold(Sold(b, 1), 2)

\* C21: when the two trades of the user have ended, the sales being covered by the
\* balances the user began with, both have succeeded and each persisted balance is
\* the balance before the trades plus what was bought and minus what was sold
C21_BothTradesPersisted ==
    (/\ \A t \in ThreadIds : threads[t].pc = "done"
     /\ \A code \in {"BTC", "EUR"} :
           /\ FLe(Zero, AfterSales(PersistedBalance(call.before, TradeUser, code), code))
           /\ (\E t \in ThreadIds : threads[t].op = "sell_currency"
                                    /\ threads[t].currency_code = code)
                 => code \in DOMAIN PersistedWallets(call.before, TradeUser)) =>
        /\ \A t \in ThreadIds : threads[t].err = "none"
        /\ \A code \in {"BTC", "EUR"} :
              PersistedBalance(portfolios, TradeUser, code)
                  = Traded(Traded(PersistedBalance(call.before, TradeUser, code), 1, code),
                           2, code)

-----------------------------------------------------------------------------
(* Two runs at the same time (parser_service/updater.py, storage.py).       *)
(* RatesUpdater and RatesStorage take no lock.  A thread is [source, pc,    *)
(* current_rates, todo, client, pending, history, updated_pairs, errors]:   *)
(* the snapshot it loaded, the clients it has still to ask, the rates of    *)
(* the client asked last that are not merged yet, the history it read for   *)
(* the record it is appending.                                              *)

Running(source) ==
    [source |-> source, pc |-> "start", current_rates |-> EmptyDict, todo |-> <<>>,
     client |-> "", pending |-> <<>>, history |-> <<>>, updated_pairs |-> <<>>,
     errors |-> <<>>]

\* the sources the two runs are asked for ("" for none)
RunSources == {"", "CoinGecko", "exchangerate"}

\* current_rates = self.storage.load_current_rates(), with an empty pairs mapping
\* when it has none, and the choice of the clients
RunLoad(t) ==
    /\ threads[t].pc = "start"
    /\ load_current_rates(rates_file).kind = "dict"
    /\ threads' = [threads EXCEPT ![t].pc = "loop",
                      ![t].current_rates =
                          [load_current_rates(rates_file) EXCEPT
                              !.keys = @ \cup {"pairs"},
                              !.pairs = PairsOf(load_current_rates(rates_file))],
                      ![t].todo = clients_to_use(call.clients, threads[t].source)]
    /\ UNCHANGED <<lock, users, call, core_vars, store_vars>>

\* new_rates = client.fetch_rates() of the next client; a failure is recorded
RunFetch(t) ==
    /\ threads[t].pc = "loop"
    /\ threads[t].todo # <<>>
    /\ LET Asked(client, r) ==
               IF r.err # "none"
               THEN [threads[t] EXCEPT !.todo = Tail(@), !.errors = Append(@, client)]
               ELSE [threads[t] EXCEPT !.todo = Tail(@), !.client = client,
                                       !.pending = r.rates,
                                       !.pc = IF r.rates = <<>> THEN "loop" ELSE "merge"]
       IN  threads' = [threads EXCEPT ![t] =
                          Asked(Head(threads[t].todo),
                                fetch_rates(Head(threads[t].todo),
                                            call.answers[Head(threads[t].todo)], now))]
    /\ UNCHANGED <<lock, users, call, core_vars, store_vars>>

\* the next pair is merged into the snapshot of the thread and append_to_history
\* reads the history file
RunMerge(t) ==
    /\ threads[t].pc = "merge"
    /\ threads' = [threads EXCEPT ![t].pc = "append",
                      ![t].current_rates.pairs =
                          Put(@, Head(threads[t].pending)[1], Head(threads[t].pending)[2]),
                      ![t].updated_pairs = Append(@, Head(threads[t].pending)[1]),
                      ![t].history = load_history(history_file)]
    /\ UNCHANGED <<lock, users, call, core_vars, store_vars>>

\* append_to_history writes the history it read with the record appended
RunAppend(t) ==
    /\ threads[t].pc = "append"
    /\ LET Written(record) ==
               /\ history_file' = append_to_history(HistoryDocument(threads[t].history),
                                                    record)
               /\ appended' = Append(appended, record)
       IN  Written(history_record(Head(threads[t].pending)[1],
                                  Head(threads[t].pending)[2], threads[t].client))
    /\ threads' = [threads EXCEPT ![t].pending = Tail(@),
                      ![t].pc = IF Tail(threads[t].pending) = <<>> THEN "loop"
                                ELSE "merge"]
    /\ UNCHANGED <<lock, users, call, core_vars, rates_file, now, utc_offset, disk,
                   writer>>

\* last_refresh is stamped and the snapshot of the thread is saved
RunSave(t) ==
    /\ threads[t].pc = "loop"
    /\ threads[t].todo = <<>>
    /\ rates_file' = save_current_rates(
                         [threads[t].current_rates EXCEPT
                             !.keys = @ \cup {"last_refresh"},
                             !.last_refresh = Time(now)], now)
    /\ threads' = [threads EXCEPT ![t].pc = "done"]
    /\ UNCHANGED <<lock, users, call, core_vars, history_file, now, utc_offset,
                   appended, disk, writer>>

\* two runs of updaters with both clients are about to start on the caches the
\* program leaves behind; call keeps the clients and what the providers answer
InitRuns ==
    /\ wallet = NoWallet
    /\ deposited = Zero
    /\ withdrawn = Zero
    /\ portfolio = NoPortfolio
    /\ portfolios = <<>>
    /\ exchange_rates = NoRates
    /\ \E answers \in AnswerInputs :
          call = [op |-> "runs", clients |-> <<CoinGeckoClient, ExchangeRateApiClient>>,
                  answers |-> answers]
    /\ utc_offset = 0
    /\ now = 0
    /\ rates_file \in UpdateStores(utc_offset)
    /\ history_file = HistoryDocument(<<>>)
    /\ appended = <<>>
    /\ disk = <<>>
    /\ writer = <<>>
    /\ lock = 0
    /\ threads \in [ThreadIds -> {Running(source) : source \in RunSources}]
    /\ users = <<>>

NextRuns ==
    \E t \in ThreadIds :
        RunLoad(t) \/ RunFetch(t) \/ RunMerge(t) \/ RunAppend(t) \/ RunSave(t)

SpecRuns == InitRuns /\ [][NextRuns]_vars

\* C22: when both runs have finished, the cache holds every pair either run merged,
\* and the history holds a record for every pair update of both runs (the newest
\* MAX_HISTORY_SIZE of them)
C22_BothRunsPersisted ==
    (\A t \in ThreadIds : threads[t].pc = "done") =>
        /\ \A t \in ThreadIds : \A i \in 1..Len(threads[t].updated_pairs) :
              threads[t].updated_pairs[i] \in DOMAIN rates_file.pairs
        /\ history_file.records = LastN(appended, MAX_HISTORY_SIZE)

-----------------------------------------------------------------------------
(* Claims about the invariants of a portfolio object and of the stores.     *)

\* C31: every key of the wallet mapping of a portfolio is an upper-case registered
\* code and the currency_code of the wallet under it, and add_currency for a
\* registered code returns a wallet that a second add_currency for the code, in any
\* letter case, returns again, the portfolio staying as it is
C31_OneWalletPerCurrency ==
    /\ portfolio # NoPortfolio =>
          \A key \in DOMAIN portfolio.wallets :
              /\ key \in CURRENCY_REGISTRY
              /\ Upper(key) = key
              /\ portfolio.wallets[key].currency_code = key
    /\ (call.op = "add_currency" /\ Upper(call.currency_code) \in CURRENCY_REGISTRY) =>
          /\ call.err = "none"
          /\ \A again \in {c \in CodeInputs : Upper(c) = Upper(call.currency_code)} :
                /\ add_currency(portfolio, again).err = "none"
                /\ add_currency(portfolio, again).wallet = call.wallet
                /\ add_currency(portfolio, again).portfolio = portfolio

\* what the providers answer when they send whatever numbers they like: a positive,
\* a zero and a negative value for the one currency each of them is asked for
ValueAnswers(code) == {Answer(<<<<code, FromInt(v)>>>>, 0) : v \in {2, 0, -2}}

\* runs of both providers on whatever values they send, each followed by the
\* program being started again (the rates read once) and by rates being resolved
NextValues ==
    \/ \E a \in ValueAnswers("BTC"), b \in ValueAnswers("EUR") :
          RunUpdate(<<CoinGeckoClient, ExchangeRateApiClient>>, "", Answers(a, b), 0)
    \/ TradingUsecases
    \/ \E f \in RateCurrencies, t \in RateCurrencies : GetExchangeRate(f, t)

SpecValues == InitSnapshot /\ [][NextValues]_vars

\* C32: every entry of the persisted rate cache has a rate > 0, whatever values the
\* providers sent to the runs that wrote it, and resolving a rate never divides by
\* zero
C32_PersistedRatesPositive ==
    /\ \A pair \in DOMAIN PairsOf(rates_file) :
          FLt(Zero, PairsOf(rates_file)[pair].rate)
    /\ call.op = "_get_exchange_rate" => call.err # "ZeroDivisionError"

-----------------------------------------------------------------------------
(* The providers request by request (parser_service/api_clients.py,         *)
(* parser_service/config.py).  A configuration is [CRYPTO_CURRENCIES,       *)
(* CRYPTO_ID_MAP, FIAT_CURRENCIES, EXCHANGERATE_API_KEY]; what the network   *)
(* does with a request is [raises, body]: raises names the call that fails  *)
(* ("get" for requests.get, "raise_for_status", "json") or is "none", and   *)
(* body is the JSON value response.json() gives.  CoinGeckoClient_fetch_rates *)
(* and ExchangeRateApiClient_fetch_rates above are these operations on the  *)
(* default configuration and on bodies of the expected shape.               *)

BASE_CURRENCY == "USD"

\* fetch_rates as far as its try block goes: [err, rates, requested], err the
\* exception raised inside the block, requested whether requests.get was called
Inside(err, rates, requested) == [err |-> err, rates |-> rates, requested |-> requested]

\* the exception of the call of the response that fails
RaisedBy(response) ==
    CASE response.raises = "get" -> "RequestException"
      [] response.raises = "raise_for_status" -> "RequestException"
      [] response.raises = "json" -> "ValueError"

\* the except clauses without the last one: only RequestException and ValueError
\* leave as ApiRequestError
WrapKnown(r) ==
    IF r.err = "none" THEN r
    ELSE IF r.err = "RequestException" THEN [r EXCEPT !.err = "ApiRequestError"]
    ELSE IF r.err = "ValueError" THEN [r EXCEPT !.err = "ApiRequestError"]
    ELSE r

\* the three except clauses of fetch_rates: whatever was raised inside the try
\* block leaves as ApiRequestError
wrap(r) ==
    IF r.err = "none" THEN r
    ELSE IF r.err = "RequestException" THEN [r EXCEPT !.err = "ApiRequestError"]
    ELSE IF r.err = "ValueError" THEN [r EXCEPT !.err = "ApiRequestError"]
    ELSE [r EXCEPT !.err = "ApiRequestError"]

\* the body of CoinGeckoClient.fetch_rates, the response being parsed at UTC second
\* t.  A body is [kind, entries], kind "null", "list" or "dict", and an entry
\* [kind, prices], kind "dict" or "number"
CoinGecko_try(config, response, t) ==
    LET Mapped(code) == code \in DOMAIN config.CRYPTO_ID_MAP
        crypto_ids == SelectSeq(config.CRYPTO_CURRENCIES, Mapped)
        data == response.body
        vs == Lower(BASE_CURRENCY)
        Listed(code) == Mapped(code) /\ config.CRYPTO_ID_MAP[code] \in DOMAIN data.entries
        entry(code) == data.entries[config.CRYPTO_ID_MAP[code]]
        Priced(code) == Listed(code) /\ vs \in DOMAIN entry(code).prices
        codes == SelectSeq(config.CRYPTO_CURRENCIES, Priced)
    IN  IF crypto_ids = <<>> THEN Inside("none", <<>>, FALSE)
        ELSE IF response.raises # "none" THEN Inside(RaisedBy(response), <<>>, TRUE)
        ELSE IF data.kind = "null" THEN Inside("TypeError", <<>>, TRUE)
        ELSE IF data.kind = "list" THEN Inside("none", <<>>, TRUE)
        ELSE IF \E i \in 1..Len(crypto_ids) :
                    Listed(crypto_ids[i]) /\ entry(crypto_ids[i]).kind = "number"
        THEN Inside("TypeError", <<>>, TRUE)
        ELSE Inside("none",
                    [i \in 1..Len(codes) |->
                        <<PairKey(codes[i], BASE_CURRENCY),
                          RateData(entry(codes[i]).prices[vs], t, "CoinGecko")>>],
                    TRUE)

\* the body of ExchangeRateApiClient.fetch_rates.  A body is [kind, result, time,
\* keys, conversion_rates], kind "null", "list" or "dict", keys the keys it has
ExchangeRate_try(config, response) ==
    LET data == response.body
        Listed(code) == code \in DOMAIN data.conversion_rates
        codes == SelectSeq(config.FIAT_CURRENCIES, Listed)
        rate(code) == Divide(FromInt(1), data.conversion_rates[code])
    IN  IF config.EXCHANGERATE_API_KEY = "" THEN Inside("ApiRequestError", <<>>, FALSE)
        ELSE IF response.raises # "none" THEN Inside(RaisedBy(response), <<>>, TRUE)
        ELSE IF data.kind # "dict" THEN Inside("AttributeError", <<>>, TRUE)
        ELSE IF data.result # "success" THEN Inside("ApiRequestError", <<>>, TRUE)
        ELSE IF data.time = NoTime THEN Inside("KeyError", <<>>, TRUE)
        ELSE IF data.time.k # "time" THEN Inside("ValueError", <<>>, TRUE)
        ELSE IF "conversion_rates" \notin data.keys THEN Inside("KeyError", <<>>, TRUE)
        ELSE IF \E i \in 1..Len(codes) : rate(codes[i]).err # "none"
        THEN Inside("ZeroDivisionError", <<>>, TRUE)
        ELSE Inside("none",
                    [i \in 1..Len(codes) |->
                        <<PairKey(codes[i], BASE_CURRENCY),
                          RateData(rate(codes[i]).val, data.time.t, "ExchangeRate-API")>>],
                    TRUE)

\* client.fetch_rates() for a client constructed on config
client_fetch_rates(client, config, response, t) ==
    IF client = CoinGeckoClient THEN wrap(CoinGecko_try(config, response, t))
    ELSE wrap(ExchangeRate_try(config, response))

\* the call client.fetch_rates()
FetchRates(client, config, response) ==
    /\ call' = [op |-> "fetch_rates", client |-> client, config |-> config,
                response |-> response,
                err |-> client_fetch_rates(client, config, response, now).err,
                rates |-> client_fetch_rates(client, config, response, now).rates,
                requested |-> client_fetch_rates(client, config, response, now).requested]
    /\ UNCHANGED <<core_vars, store_vars, proc_vars>>

\* the provider ids of CRYPTO_ID_MAP: both tracked codes mapped, one, none
IdMaps ==
    {[code \in codes |-> IF code = "BTC" THEN "bitcoin" ELSE "ethereum"] :
        codes \in {{"BTC", "ETH"}, {"BTC"}, {}}}

\* configurations: two tracked codes per provider, with and without an API key
ParserConfigs ==
    {[CRYPTO_CURRENCIES |-> <<"BTC", "ETH">>, CRYPTO_ID_MAP |-> ids,
      FIAT_CURRENCIES |-> <<"EUR", "GBP">>, EXCHANGERATE_API_KEY |-> key] :
        ids \in IdMaps, key \in {"", "key"}}

\* the calls of a request that may fail
FailingCalls == {"get", "raise_for_status", "json"}

\* what CoinGecko may say about one id: a price in usd, a price in another
\* currency only, a number where the prices should be
EntryInputs ==
    {[kind |-> "dict", prices |-> [vs \in {"usd"} |-> FromInt(2)]],
     [kind |-> "dict", prices |-> [vs \in {"usd"} |-> FromInt(4)]],
     [kind |-> "dict", prices |-> [vs \in {"eur"} |-> FromInt(2)]],
     [kind |-> "number", prices |-> EmptyMap]}

CoinGeckoBody(kind, entries) == [kind |-> kind, entries |-> entries]

\* the responses to a CoinGecko request: a call that fails, JSON null, a JSON
\* array, an object that lists any of the two ids
CoinGeckoResponses ==
    {[raises |-> c, body |-> CoinGeckoBody("null", EmptyMap)] : c \in FailingCalls}
    \cup {[raises |-> "none", body |-> CoinGeckoBody(kind, EmptyMap)] : kind \in {"null", "list"}}
    \cup {[raises |-> "none", body |-> CoinGeckoBody("dict", entries)] :
            entries \in UNION {[ids -> EntryInputs] : ids \in SUBSET {"bitcoin", "ethereum"}}}

ExchangeRateBody(kind, result, time, keys, conversion_rates) ==
    [kind |-> kind, result |-> result, time |-> time, keys |-> keys,
     conversion_rates |-> conversion_rates]

\* conversion rates of a body: of no code, of tracked codes, with a zero, of a code
\* that is not tracked
ConversionRates ==
    {EmptyMap,
     [code \in {"EUR"} |-> FromInt(2)],
     [code \in {"EUR", "GBP"} |-> IF code = "EUR" THEN FromInt(2) ELSE FromInt(4)],
     [code \in {"EUR", "GBP"} |-> IF code = "EUR" THEN Zero ELSE FromInt(4)],
     [code \in {"EUR", "JPY"} |-> IF code = "EUR" THEN FromInt(2) ELSE FromInt(4)]}

\* the responses to an ExchangeRate-API request
ExchangeRateResponses ==
    {[raises |-> c, body |-> ExchangeRateBody("null", "", NoTime, {}, EmptyMap)] :
        c \in FailingCalls}
    \cup {[raises |-> "none", body |-> ExchangeRateBody(kind, "", NoTime, {}, EmptyMap)] :
            kind \in {"null", "list"}}
    \cup {[raises |-> "none",
           body |-> ExchangeRateBody("dict", result, time, {"conversion_rates"}, rates)] :
            result \in {"success", "error"}, time \in {Time(0), NoTime, Malformed},
            rates \in ConversionRates}
    \cup {[raises |-> "none",
           body |-> ExchangeRateBody("dict", result, time, {}, EmptyMap)] :
            result \in {"success", "error"}, time \in {Time(0), NoTime, Malformed}}

\* one provider client asked for its rates, nothing stored
InitProviders ==
    /\ wallet = NoWallet
    /\ deposited = Zero
    /\ withdrawn = Zero
    /\ portfolio = NoPortfolio
    /\ portfolios = <<>>
    /\ exchange_rates = NoRates
    /\ call = NoCall
    /\ StoreIdle
    /\ NoThreads

NextProviders ==
    \/ \E config \in ParserConfigs, response \in CoinGeckoResponses :
          FetchRates(CoinGeckoClient, config, response)
    \/ \E config \in ParserConfigs, response \in ExchangeRateResponses :
          FetchRates(ExchangeRateApiClient, config, response)

SpecProviders == InitProviders /\ [][NextProviders]_vars

-----------------------------------------------------------------------------
(* Claims about the providers (SpecProviders).                              *)

Fetching == call.op = "fetch_rates"

\* the body of the last response lacks what the client indexes: it is JSON null,
\* or for the crypto client it gives a number where the prices of a mapped tracked
\* code should be, or for the fiat client it is no object, or one without a
\* readable time_last_update_utc or without conversion_rates
Unusable(body) ==
    IF call.client = CoinGeckoClient
    THEN \/ body.kind = "null"
         \/ /\ body.kind = "dict"
            /\ \E code \in DOMAIN call.config.CRYPTO_ID_MAP :
                  /\ call.config.CRYPTO_ID_MAP[code] \in DOMAIN body.entries
                  /\ body.entries[call.config.CRYPTO_ID_MAP[code]].kind = "number"
    ELSE \/ body.kind # "dict"
         \/ body.time.k # "time"
         \/ "conversion_rates" \notin body.keys

\* the body of the last response is not what the provider documents: it is no
\* JSON object, or an object that is unusable
MalformedBody(body) == body.kind # "dict" \/ Unusable(body)

\* the fiat client was asked without an API key
NoCredential == call.client = ExchangeRateApiClient /\ call.config.EXCHANGERATE_API_KEY = ""

WellFormed ==
    /\ call.response.raises = "none"
    /\ call.response.body.kind = "dict"
    /\ ~Unusable(call.response.body)
    /\ call.client = ExchangeRateApiClient =>
          (call.config.EXCHANGERATE_API_KEY # "" /\ call.response.body.result = "success")

\* the pair keys of the rates fetch_rates returned, and the rate returned for one
FetchedPairs == {call.rates[i][1] : i \in 1..Len(call.rates)}
FetchedRate(pair) == call.rates[CHOOSE i \in 1..Len(call.rates) : call.rates[i][1] = pair][2].rate

\* the tracked crypto codes that have a provider id, and those of them the
\* response prices in the base currency
MappedCodes == Range(call.config.CRYPTO_CURRENCIES) \cap DOMAIN call.config.CRYPTO_ID_MAP
PricedCodes ==
    {code \in MappedCodes :
        /\ call.config.CRYPTO_ID_MAP[code] \in DOMAIN call.response.body.entries
        /\ "usd" \in DOMAIN call.response.body.entries[call.config.CRYPTO_ID_MAP[code]].prices}

\* the tracked fiat codes the response has a conversion rate for
ConvertedCodes ==
    Range(call.config.FIAT_CURRENCIES) \cap DOMAIN call.response.body.conversion_rates

\* C34: on a well-formed response the crypto client returns the pair CODE_USD, with
\* the value received, exactly for the tracked codes that have a provider id and
\* are priced in the response, and without a mapped tracked code it returns the empty
\* mapping and sends no request; the fiat client returns the pair CODE_USD with
\* rate 1 / v exactly for the tracked codes the response gives a value v for
C34_ProvidersNormalise ==
    /\ (Fetching /\ call.client = CoinGeckoClient /\ MappedCodes = {}) =>
          (call.err = "none" /\ call.rates = <<>> /\ ~call.requested)
    /\ (Fetching /\ call.client = CoinGeckoClient /\ MappedCodes # {} /\ WellFormed) =>
          /\ call.err = "none"
          /\ call.requested
          /\ FetchedPairs = {PairKey(code, BASE_CURRENCY) : code \in PricedCodes}
          /\ \A code \in PricedCodes :
                FetchedRate(PairKey(code, BASE_CURRENCY))
                    = call.response.body.entries[call.config.CRYPTO_ID_MAP[code]].prices["usd"]
    /\ (Fetching /\ call.client = ExchangeRateApiClient /\ WellFormed) =>
          /\ call.err = "none"
          /\ FetchedPairs = {PairKey(code, BASE_CURRENCY) : code \in ConvertedCodes}
          /\ \A code \in ConvertedCodes :
                FMul(FetchedRate(PairKey(code, BASE_CURRENCY)),
                     call.response.body.conversion_rates[code]) = FromInt(1)

-----------------------------------------------------------------------------
(* Saving a snapshot (parser_service/storage.py).  json.dump writes a float *)
(* as the shortest decimal that reads back as the same float, and writes    *)
(* nan and the infinities as the literals NaN, Infinity and -Infinity,      *)
(* which json.load accepts.                                                 *)

\* the JSON text of a number, of None, of a string
json_dumps(x) ==
    CASE x.k = "nan" -> [text |-> "NaN", s |-> 1, m |-> 0, e |-> 0]
      [] x.k = "inf" -> [text |-> IF x.s = 1 THEN "Infinity" ELSE "-Infinity",
                         s |-> 1, m |-> 0, e |-> 0]
      [] x.k = "none" -> [text |-> "null", s |-> 1, m |-> 0, e |-> 0]
      [] x.k = "str" -> [text |-> "string", s |-> 1, m |-> 0, e |-> 0]
      [] OTHER -> [text |-> "decimal", s |-> x.s, m |-> x.m, e |-> x.e]

\* the value json.load gives for a text json.dump wrote
json_loads(j) ==
    CASE j.text = "NaN" -> NaN
      [] j.text = "Infinity" -> Inf
      [] j.text = "-Infinity" -> NegInf
      [] j.text = "null" -> None
      [] j.text = "string" -> NotANumber
      [] OTHER -> Fin(j.s, j.m, j.e)

\* RatesStorage._write_json(rates_file, data): the document a reader decodes from
\* the file once the temporary file has replaced it
RatesStorage_write_json(data) ==
    [data EXCEPT !.pairs = [pair \in DOMAIN data.pairs |->
                               [data.pairs[pair] EXCEPT !.rate = json_loads(json_dumps(@))]]]

\* storage.save_current_rates(rates_data); saved is rates_data after the call, which
\* stamps the dict it is given
SaveCurrentRates(rates_data) ==
    /\ rates_file' = RatesStorage_write_json(save_current_rates(rates_data, now))
    /\ call' = [op |-> "save_current_rates", rates_data |-> rates_data, at |-> now,
                saved |-> save_current_rates(rates_data, now)]
    /\ UNCHANGED <<proc_vars, core_vars, history_file, now, utc_offset, appended,
                   disk, writer>>

\* the pairs of the snapshots saved: none, one, and one with rates that are no
\* finite numbers
SavedPairs ==
    {EmptyMap,
     Put(EmptyMap, "BTC_USD", RateData(FromInt(3), 0, "CoinGecko")),
     Put(Put(EmptyMap, "BTC_USD", RateData(NaN, 0, "CoinGecko")),
         "EUR_USD", RateData(Inf, 0, "ExchangeRate-API"))}

\* the snapshots saved: {}, and snapshots without last_refresh, with one, and with
\* one that is no time stamp
SavedSnapshots ==
    {EmptyDict}
    \cup {[Snapshot(pairs, NoTime) EXCEPT !.keys = {"pairs"}] : pairs \in SavedPairs}
    \cup {Snapshot(pairs, last_refresh) :
            pairs \in SavedPairs, last_refresh \in {Time(0), Malformed, NonString}}

\* snapshots are saved and loaded while time passes
NextSave ==
    \/ \E rates_data \in SavedSnapshots : SaveCurrentRates(rates_data)
    \/ LoadCurrentRates
    \/ \E step \in TickSteps : Tick(step)

SpecSave == InitProviders /\ [][NextSave]_vars

Saved == call.op = "save_current_rates"

-----------------------------------------------------------------------------
(* Claims about the user store and the portfolio document.                  *)

\* thread t is inside create_user
Creating(t) == Busy(t) /\ threads[t].stack[1].op = "create_user"

\* no two stored users share a username or a user_id
UniqueUsers ==
    \A i, j \in 1..Len(users) :
        (users[i].username = users[j].username \/ users[i].user_id = users[j].user_id)
            => i = j

\* the entries of the portfolio document for user_id
EntriesOf(user_id) == {i \in 1..Len(portfolios) : portfolios[i].user_id = user_id}

\* C36: no two stored users ever share a username or a user_id, every create_user
\* returns, either failing for a taken username or having stored the user, and a
\* user stored by a create_user that has returned has exactly one portfolio entry
C36_CreateUserKeepsUsersUnique ==
    /\ []UniqueUsers
    /\ \A t \in ThreadIds : Creating(t) ~> ~Creating(t)
    /\ []((call.op = "create_user" /\ call.err = "none") =>
            \E i \in 1..Len(users) :
                /\ users[i].username = Argument("create_user")
                /\ Cardinality(EntriesOf(users[i].user_id)) = 1)

\* the wallets update_portfolio is given
WalletInputs ==
    {EmptyMap, Put(EmptyMap, "BTC", [balance |-> FromInt(2)]),
     Put(EmptyMap, "EUR", [balance |-> FromInt(1)])}

\* the arguments of the two operations that write portfolios.json
PortfolioArguments(op) ==
    IF op = "create_portfolio" THEN UserIds
    ELSE [user_id : UserIds, wallets : WalletInputs]

\* thread t calls db.create_portfolio(user_id) or db.update_portfolio(user_id, wallets)
CallPortfolio(t, op, arg) ==
    /\ threads[t].stack = <<>>
    /\ threads[t].calls < MaxCalls
    /\ threads' = [threads EXCEPT ![t] = [stack |-> <<Frame(op, arg)>>,
                                          calls |-> @.calls + 1]]
    /\ call' = [op |-> op, thread |-> t, err |-> "running"]
    /\ UNCHANGED <<lock, users, core_vars, store_vars>>

\* two threads of one process on a portfolio document the two operations leave
InitEntries ==
    /\ wallet = NoWallet
    /\ deposited = Zero
    /\ withdrawn = Zero
    /\ portfolio = NoPortfolio
    /\ portfolios \in {<<>>, create_portfolio(<<>>, 1),
                       create_portfolio(update_portfolio(<<>>, 2, Put(EmptyMap, "BTC", [balance |-> FromInt(2)])), 1)}
    /\ exchange_rates = NoRates
    /\ call = NoCall
    /\ StoreIdle
    /\ lock = 0
    /\ threads = [t \in ThreadIds |-> [stack |-> <<>>, calls |-> 0]]
    /\ users = <<>>

NextEntries ==
    \E t \in ThreadIds :
        \/ \E op \in {"create_portfolio", "update_portfolio"} :
              \E arg \in PortfolioArguments(op) : CallPortfolio(t, op, arg)
        \/ Acquire(t)
        \/ RunLocked(t)

SpecEntries == InitEntries /\ [][NextEntries]_vars

\* the entries of document doc that are not of user_id, in order
Others(doc, user_id) ==
    LET Other(entry) == entry.user_id # user_id
    IN  SelectSeq(doc, Other)

\* the step in which the update_portfolio of thread t writes and returns
UpdateStep(t) ==
    /\ Busy(t)
    /\ Top(threads[t].stack).op = "update_portfolio"
    /\ Top(threads[t].stack).pc = "locked"
    /\ threads'[t].stack = <<>>

\* what update_portfolio(arg.user_id, arg.wallets) does to the document
UpdateEffect(arg) ==
    /\ Others(portfolios', arg.user_id) = Others(portfolios, arg.user_id)
    /\ IF EntriesOf(arg.user_id) = {}
       THEN portfolios' = Append(portfolios, [user_id |-> arg.user_id, wallets |-> arg.wallets])
       ELSE /\ Len(portfolios') = Len(portfolios)
            /\ \A i \in EntriesOf(arg.user_id) :
                  portfolios'[i] = [user_id |-> arg.user_id, wallets |-> arg.wallets]

AtMostOneEntry == \A user_id \in UserIds : Cardinality(EntriesOf(user_id)) <= 1

\* C37: update_portfolio(user_id, wallets) replaces the wallets of the entry of
\* user_id, or appends the entry when there is none, and leaves the entries of all
\* other users as they were; after every step of any interleaving of
\* create_portfolio and update_portfolio calls the document has at most one entry
\* per user_id
C37_UpdateReplacesOneEntry ==
    [][/\ \A t \in ThreadIds : UpdateStep(t) => UpdateEffect(Top(threads[t].stack).arg)
       /\ AtMostOneEntry']_vars

\* C37 witness: an update_portfolio has returned and the document holds the entry of
\* user 2 first, with the wallets it had, and the entry of user 1 with wallets an
\* update gave it
C37_OneReplacedOtherKept ==
    /\ call.op = "update_portfolio"
    /\ call.err = "none"
    /\ Len(portfolios) = 2
    /\ portfolios[1] = [user_id |-> 2, wallets |-> Put(EmptyMap, "BTC", [balance |-> FromInt(2)])]
    /\ portfolios[2] = [user_id |-> 1, wallets |-> Put(EmptyMap, "EUR", [balance |-> FromInt(1)])]

-----------------------------------------------------------------------------
(* The command line session (cli/interface.py, core/usecases.py).  The      *)
(* session is the one process at work: threads = <<[current_user]>>.  A     *)
(* user of users.json is [user_id, username, hashed_password, salt].  An    *)
(* argument of a command is what parse_args makes of it: [type, text], type *)
(* "none" when the option is not given, "int" when its text is a number     *)
(* (parse_args converts it), "str" otherwise.                               *)

NoUser == [none |-> TRUE]
NoArg == [type |-> "none", text |-> ""]
StrArg(text) == [type |-> "str", text |-> text]
IntArg(text) == [type |-> "int", text |-> text]

CLI(user) == <<[current_user |-> user]>>
current_user == threads[1].current_user

\* sha256(text).hexdigest(), a different digest for every text
sha256(text) == "sha256:" \o text

\* db.get_user_by_username(username): the first user of that name, or NoUser
get_user_by_username(us, username) ==
    IF username.type = "str" /\ \E i \in 1..Len(us) : us[i].username = username.text
    THEN us[CHOOSE i \in 1..Len(us) :
                /\ us[i].username = username.text
                /\ \A j \in 1..(i - 1) : us[j].username # username.text]
    ELSE NoUser

\* user.verify_password(password): [err, val]; password + salt raises TypeError for
\* a password that is no string
verify_password(user, password) ==
    IF password.type # "str" THEN [err |-> "TypeError", val |-> FALSE]
    ELSE [err |-> "none", val |-> sha256(password.text \o user.salt) = user.hashed_password]

\* UserUsecases.authenticate_user(username, password): [err, user_data]
authenticate_user(us, username, password) ==
    LET user_data == get_user_by_username(us, username)
    IN  IF user_data = NoUser THEN [err |-> "UserNotFoundError", user_data |-> NoUser]
        ELSE IF verify_password(user_data, password).err # "none"
        THEN [err |-> verify_password(user_data, password).err, user_data |-> NoUser]
        ELSE IF ~verify_password(user_data, password).val
        THEN [err |-> "AuthenticationError", user_data |-> NoUser]
        ELSE [err |-> "none", user_data |-> user_data]

\* a login that takes the user found without checking the password
LoginUnverified(us, user, username, password) ==
    IF username.type = "none" \/ password.type = "none" THEN [err |-> "usage", current_user |-> user]
    ELSE IF get_user_by_username(us, username) = NoUser
    THEN [err |-> "UserNotFoundError", current_user |-> user]
    ELSE [err |-> "none", current_user |-> get_user_by_username(us, username)]

\* CLIInterface._cmd_login: [err, current_user], err what was reported
_cmd_login(us, user, username, password) ==
    IF username.type = "none" \/ password.type = "none" THEN [err |-> "usage", current_user |-> user]
    ELSE IF authenticate_user(us, username, password).err # "none"
    THEN [err |-> authenticate_user(us, username, password).err, current_user |-> user]
    ELSE [err |-> "none", current_user |-> authenticate_user(us, username, password).user_data]

\* the arguments --currency and --amount are given and the amount is a number:
\* a missing option, an amount of 0 (which is falsy) and a text float() rejects
\* end the command before the use case is called
TradeArguments(currency_code, amount) ==
    currency_code # "" /\ amount # None /\ ~IsZero(amount) /\ IsNumber(amount)

\* the use case a buy or sell command calls
trade(op, doc, rates, user_id, currency_code, amount) ==
    IF op = "buy" THEN buy_currency(doc, rates, user_id, currency_code, amount)
    ELSE sell_currency(doc, rates, user_id, currency_code, amount)

\* the login command
CmdLogin(username, password) ==
    /\ threads' = CLI(_cmd_login(users, current_user, username, password).current_user)
    /\ call' = [op |-> "login", username |-> username, password |-> password,
                err |-> _cmd_login(users, current_user, username, password).err,
                trading |-> <<>>]
    /\ UNCHANGED <<lock, users, core_vars, store_vars>>

\* the logout command
CmdLogout ==
    /\ threads' = CLI(NoUser)
    /\ call' = [op |-> "logout", err |-> IF current_user = NoUser THEN "not logged in" ELSE "none",
                trading |-> <<>>]
    /\ UNCHANGED <<lock, users, core_vars, store_vars>>

\* the buy and sell commands; trading lists the calls of the trading use cases
CmdTrade(op, currency_code, amount) ==
    /\ IF current_user = NoUser
       THEN /\ call' = [op |-> op, err |-> "login required", trading |-> <<>>]
            /\ UNCHANGED portfolios
       ELSE IF ~TradeArguments(currency_code, amount)
       THEN /\ call' = [op |-> op, err |-> "usage", trading |-> <<>>]
            /\ UNCHANGED portfolios
       ELSE /\ call' = [op |-> op,
                        err |-> trade(op, portfolios, exchange_rates, current_user.user_id,
                                      currency_code, amount).err,
                        trading |-> <<[op |-> op, user_id |-> current_user.user_id]>>]
            /\ portfolios' = trade(op, portfolios, exchange_rates, current_user.user_id,
                                   currency_code, amount).portfolios
    /\ UNCHANGED <<proc_vars, store_vars, wallet, deposited, withdrawn, portfolio,
                   exchange_rates>>

\* the show-portfolio command
CmdShowPortfolio(base_currency) ==
    /\ call' = IF current_user = NoUser
               THEN [op |-> "show-portfolio", err |-> "login required", trading |-> <<>>]
               ELSE IF validate_currency_code(base_currency).err # "none"
               THEN [op |-> "show-portfolio", err |-> validate_currency_code(base_currency).err,
                     trading |-> <<>>]
               ELSE [op |-> "show-portfolio",
                     err |-> get_portfolio_info(portfolios, exchange_rates,
                                                current_user.user_id, Upper(base_currency)).err,
                     trading |-> <<[op |-> "get_portfolio", user_id |-> current_user.user_id]>>]
    /\ UNCHANGED <<proc_vars, core_vars, store_vars>>

\* users.json with two users, the password of the second all digits
StoredUsers ==
    <<[user_id |-> 1, username |-> "alice", hashed_password |-> sha256("secret" \o "s1"),
       salt |-> "s1"],
      [user_id |-> 2, username |-> "bob", hashed_password |-> sha256("1234" \o "s2"),
       salt |-> "s2"]>>

UsernameArgs == {NoArg, StrArg("alice"), StrArg("bob"), StrArg("carol"), IntArg("1234")}
PasswordArgs == {NoArg, StrArg("secret"), StrArg("wrong"), IntArg("1234")}

\* a session that starts logged out, on documents of the two users
InitSession ==
    /\ wallet = NoWallet
    /\ deposited = Zero
    /\ withdrawn = Zero
    /\ portfolio = NoPortfolio
    /\ portfolios \in {doc \in PortfolioDocs : Len(doc) # 1}
    /\ exchange_rates \in TradeSnapshots
    /\ call = NoCall
    /\ StoreIdle
    /\ lock = 0
    /\ threads = CLI(NoUser)
    /\ users = StoredUsers

NextSession ==
    \/ \E username \in UsernameArgs, password \in PasswordArgs : CmdLogin(username, password)
    \/ CmdLogout
    \/ \E op \in {"buy", "sell"}, currency_code \in TradeCodes \cup {""},
          amount \in TradeAmounts \cup {None} : CmdTrade(op, currency_code, amount)
    \/ \E base_currency \in {"USD", "btc", "XYZ"} : CmdShowPortfolio(base_currency)

SpecSession == InitSession /\ [][NextSession]_vars

\* the command the step ran is a login with the name and the password of user
LoginOf(user) ==
    /\ call'.op = "login"
    /\ call'.username = StrArg(user.username)
    /\ call'.password.type = "str"
    /\ sha256(call'.password.text \o user.salt) = user.hashed_password

\* C38: current_user becomes a user only by a login with the name of a stored user
\* and the password that verifies for it, and becomes none only by logout, which
\* always clears it; logged out, buy, sell and show-portfolio call no trading use
\* case and leave users, portfolios, rates and history as they are; logged in, buy
\* and sell call the use case with the user_id of current_user and leave the
\* portfolio entries of all other users and the other documents as they are
C38_SessionGating ==
    [][/\ (current_user' # current_user /\ current_user' # NoUser) =>
              \E i \in 1..Len(users) : users[i] = current_user' /\ LoginOf(users[i])
       /\ (current_user # NoUser /\ current_user' = NoUser) => call'.op = "logout"
       /\ call'.op = "logout" => current_user' = NoUser
       /\ (current_user = NoUser /\ call'.op \in {"buy", "sell", "show-portfolio"}) =>
              /\ call'.trading = <<>>
              /\ UNCHANGED <<users, portfolios, rates_file, history_file>>
       /\ (current_user # NoUser /\ call'.op \in {"buy", "sell"}) =>
              /\ \A k \in 1..Len(call'.trading) :
                    call'.trading[k].user_id = current_user.user_id
              /\ Others(portfolios', current_user.user_id)
                    = Others(portfolios, current_user.user_id)
              /\ UNCHANGED <<users, rates_file, history_file>>]_vars

\* C38 witness: alice is logged in, the document holds an entry of bob, and her buy
\* command has called buy_currency with her user_id
C38_LoggedInBuy ==
    /\ current_user = StoredUsers[1]
    /\ call.op = "buy"
    /\ call.trading = <<[op |-> "buy", user_id |-> 1]>>
    /\ \E i \in 1..Len(portfolios) : portfolios[i].user_id = 2

===============================================================================
